---- MODULE Spec2Model ----
(***************************************************************************)
(* The DocC-to-pandoc Markdown converter of swift-book-offline-pandoc       *)
(* (src/make-offline-files.py and its two older variants).                  *)
(*                                                                          *)
(* A Python str is a sequence of one-character strings.  An optional value  *)
(* (Python None or a value) is the empty sequence or a one-element          *)
(* sequence.  A call that can raise returns a record [exc, line]: exc is    *)
(* the name of the exception raised, or "" with the result in line.         *)
(***************************************************************************)
EXTENDS Integers, Sequences, FiniteSets, TLC

VARIABLES
    pc,                            \* position of the run
    script,                        \* the entry-point script that is run
    files,                         \* the .md files under book_path, in rglob order
    assets,                        \* TSPL.docc/Assets: image name prefix -> pixel width
    main_markdown_file_text,       \* stdout of the heading-shift pandoc call
    rglob,                         \* paths the index comprehension has still to visit
    paths_and_titles_mapping,      \* stem -> [path, title]
    combined_book_markdown_lines,  \* the combined document, a list of lines
    state,                         \* ParserState of preprocess_main_file_markdown
    main_lines,                    \* lines of the root text the for loop has still to visit
    text,                          \* lines_for_included_document: text of the chapter
    markdown_lines,                \* chapter transpiler: input lines still to pop
    pushback,                      \* chapter transpiler: push-back slot
    tstate,                        \* chapter transpiler: ParserState
    out,                           \* chapter transpiler: output lines
    line,                          \* the line in hand (transpiler loop / line rewriter)
    included,                      \* history: per chapter included, its stem and the first
                                   \* and last line of its block in the combined document
    error,                         \* name of the uncaught exception, "" if none
    combined_file,                 \* content of swiftbook-combined.md, None before the write
    option_sets,                   \* pandoc invocations still to make
    stdout,                        \* what the run printed
    exit_status                    \* process exit status, None while running

vars == <<pc, script, files, assets, main_markdown_file_text, rglob,
          paths_and_titles_mapping, combined_book_markdown_lines, state, main_lines,
          text, markdown_lines, pushback, tstate, out, line, included, error,
          combined_file, option_sets, stdout, exit_status>>

-----------------------------------------------------------------------------
(* Python values *)

\* the character U+0060, which a TLA+ string literal cannot hold
Backtick == "U+0060"

None == <<>>
Some(x) == <<x>>
Truthy(opt) == opt # None /\ opt[1] # <<>>

Ok(l) == [exc |-> "", line |-> l]
Raise(e) == [exc |-> e, line |-> <<>>]

-----------------------------------------------------------------------------
(* str methods and character classes *)

UpperCase == <<"A","B","C","D","E","F","G","H","I","J","K","L","M",
               "N","O","P","Q","R","S","T","U","V","W","X","Y","Z">>
LowerCase == <<"a","b","c","d","e","f","g","h","i","j","k","l","m",
               "n","o","p","q","r","s","t","u","v","w","x","y","z">>
Digits == <<"0","1","2","3","4","5","6","7","8","9">>

Range(f) == {f[i] : i \in DOMAIN f}

\* \s of re and the characters str.strip removes
SpaceChars == {" ", "\t", "\n"}
IsSpace(c) == c \in SpaceChars
\* \w of re
WordChars == Range(UpperCase) \cup Range(LowerCase) \cup Range(Digits) \cup {"_"}
IsWord(c) == c \in WordChars

ToLower == [c \in Range(UpperCase) |->
                LowerCase[CHOOSE i \in DOMAIN UpperCase : UpperCase[i] = c]]
LowerChar(c) == IF c \in DOMAIN ToLower THEN ToLower[c] ELSE c

\* s.lower()
Lower(s) == [i \in DOMAIN s |-> LowerChar(s[i])]
\* s.replace(a, b) for one-character a and b
Replace(s, a, b) == [i \in DOMAIN s |-> IF s[i] = a THEN b ELSE s[i]]
\* s[n:]
From(s, n) == SubSeq(s, n, Len(s))
\* s.startswith(p)
StartsWith(s, p) == Len(s) >= Len(p) /\ SubSeq(s, 1, Len(p)) = p
\* p occurs in s at (1-based) position i
At(s, i, p) == i >= 1 /\ i + Len(p) - 1 <= Len(s) /\ SubSeq(s, i, i + Len(p) - 1) = p

\* length of the longest run of characters of the set chars, from position i
RunLen(s, i, chars) ==
    IF i < 1 \/ i > Len(s) THEN 0
    ELSE (CHOOSE j \in i..(Len(s) + 1) :
              /\ j = Len(s) + 1 \/ s[j] \notin chars
              /\ \A k \in i..(j - 1) : s[k] \in chars) - i

\* s.lstrip()
Lstrip(s) == From(s, 1 + RunLen(s, 1, SpaceChars))
RECURSIVE Rstrip(_)
Rstrip(s) == IF s # <<>> /\ IsSpace(s[Len(s)]) THEN Rstrip(SubSeq(s, 1, Len(s) - 1)) ELSE s
\* s.strip()
Strip(s) == Rstrip(Lstrip(s))

\* number of occurrences of the character c in s
Count(s, c) == Cardinality({i \in DOMAIN s : s[i] = c})
\* first position of the character c in s (c occurs in s)
Find(s, c) == CHOOSE i \in DOMAIN s : s[i] = c /\ \A j \in 1..(i - 1) : s[j] # c

\* str(n) for a natural number n
RECURSIVE Str(_)
Str(n) == IF n < 10 THEN <<Digits[n + 1]>> ELSE Str(n \div 10) \o <<Digits[(n % 10) + 1]>>

\* the f-string rendering of an optional str: None prints as None
Format(opt) == IF opt = None THEN <<"N","o","n","e">> ELSE opt[1]  \* "None"

RECURSIVE Concat(_)
Concat(ss) == IF ss = <<>> THEN <<>> ELSE Head(ss) \o Concat(Tail(ss))

\* sep.join(ss)
RECURSIVE Join(_, _)
Join(ss, sep) ==
    IF ss = <<>> THEN <<>>
    ELSE IF Len(ss) = 1 THEN ss[1]
    ELSE ss[1] \o sep \o Join(Tail(ss), sep)

\* s.splitlines(): the lines of s without their terminators
RECURSIVE SplitLines(_)
SplitLines(s) ==
    IF s = <<>> THEN <<>>
    ELSE IF Count(s, "\n") = 0 THEN <<s>>
    ELSE LET n == Find(s, "\n")
         IN <<SubSeq(s, 1, n - 1)>> \o SplitLines(From(s, n + 1))

\* iteration over an open text file: the lines of s with their terminators
RECURSIVE FileLines(_)
FileLines(s) ==
    IF s = <<>> THEN <<>>
    ELSE IF Count(s, "\n") = 0 THEN <<s>>
    ELSE LET n == Find(s, "\n")
         IN <<SubSeq(s, 1, n)>> \o FileLines(From(s, n + 1))

-----------------------------------------------------------------------------
(* The Line Rewriter *)

\* re.match(r'(#+ .+)', line): at least one '#', a space, at least one more character
HeadingMatch(l) ==
    LET k == RunLen(l, 1, {"#"})
    IN k >= 1 /\ Len(l) >= k + 2 /\ l[k + 1] = " "

rewrite_docc_markdown_line_for_pandoc_heading_level_shift(l) ==
    IF HeadingMatch(l) THEN <<"#">> \o l ELSE l

\* r'(\*{1,2})_\?_' at position i of s: the number of asterisks matched, 0 when
\* there is no match (two asterisks are tried before one)
OptionalityMatchLen(s, i) ==
    IF s[i] # "*" THEN 0
    ELSE IF At(s, i, <<"*","*","_","?","_">>) THEN 2  \* "**_?_"
    ELSE IF At(s, i, <<"*","_","?","_">>) THEN 1  \* "*_?_"
    ELSE 0

\* re.sub(r'(\*{1,2})_\?_', r'?\1', line), from position i on
RECURSIVE SubOptionalityMarker(_, _)
SubOptionalityMarker(l, i) ==
    LET starts == {j \in i..Len(l) : OptionalityMatchLen(l, j) > 0}
    IN IF starts = {} THEN From(l, i)
       ELSE LET j == CHOOSE x \in starts : \A y \in starts : x <= y
                n == OptionalityMatchLen(l, j)
            IN SubSeq(l, i, j - 1) \o <<"?">> \o SubSeq(l, j, j + n - 1)
               \o SubOptionalityMarker(l, j + n + 3)

rewrite_docc_markdown_line_for_pandoc_optionality_marker(l) == SubOptionalityMarker(l, 1)

\* re.match(r'!\[([^\]]*)\]\(([\w-]+)\)', line): [matched, caption, prefix]
ImageMatch(l) ==
    IF ~StartsWith(l, <<"!","[">>) THEN [matched |-> FALSE, caption |-> <<>>, prefix |-> <<>>]  \* "!["
    ELSE LET c == RunLen(l, 3, Range(l) \ {"]"})
             p == RunLen(l, c + 5, WordChars \cup {"-"})
         IN IF At(l, c + 3, <<"]","(">>) /\ p >= 1 /\ At(l, c + 5 + p, <<")">>)  \* "](" ")"
            THEN [matched |-> TRUE, caption |-> SubSeq(l, 3, c + 2),
                  prefix |-> SubSeq(l, c + 5, c + 4 + p)]
            ELSE [matched |-> FALSE, caption |-> <<>>, prefix |-> <<>>]

\* ScalePercentage with round() in the place of int()
ScalePercentageRounded(width) == (10 * width + 76) \div 152

\* int(float(width) / 2 / 7.6).  float(width) / 2 is exact.  The double nearest
\* to 7.6 is 7.6 - 0.4 * 2^-50, so the exact quotient by it exceeds 5 * width / 76
\* by a relative 4.7e-17 and its rounding to a double moves it by at most a
\* relative 1.2e-16 more: a multiple of 1/76 that is no integer stays below the
\* next integer (its distance to it is at least 1/76), and an integer n becomes n
\* or the double after n, never one below n.  int() therefore yields the floor
\* of 5 * width / 76 for every width below 2^31.
ScalePercentage(width) == (5 * width) \div 76

\* rewrite_docc_markdown_line_for_pandoc_image_reference without its two
\* assert statements: a reference whose asset is missing or has no width stays
image_reference_without_assertions(l, as) ==
    LET m == ImageMatch(l)
    IN IF ~m.matched THEN Ok(l)
       ELSE IF m.prefix \notin DOMAIN as THEN Ok(l)
       ELSE IF as[m.prefix] = None THEN Ok(l)
       ELSE Ok(<<"!","[">> \o m.caption \o <<"]","(">> \o m.prefix \o <<"@","2","x",".","p","n","g">> \o <<")","{"," ","w","i","d","t","h","=">>  \* "![" "](" "@2x.png" "){ width="
               \o Str(ScalePercentage(as[m.prefix][1])) \o <<"%"," ","}">>)  \* "% }"

\* as: what is in the Assets directory, prefix -> [exists, width]; width is None
\* when the output of file(1) names no PNG width
rewrite_docc_markdown_line_for_pandoc_image_reference(l, as) ==
    LET m == ImageMatch(l)
    IN IF ~m.matched THEN Ok(l)
       ELSE IF m.prefix \notin DOMAIN as THEN Raise("AssertionError")
       ELSE IF as[m.prefix] = None THEN Raise("AssertionError")
       ELSE Ok(<<"!","[">> \o m.caption \o <<"]","(">> \o m.prefix \o <<"@","2","x",".","p","n","g">> \o <<")","{"," ","w","i","d","t","h","=">>  \* "![" "](" "@2x.png" "){ width="
               \o Str(ScalePercentage(as[m.prefix][1])) \o <<"%"," ","}">>)  \* "% }"

\* pandoc_markdown_reference_for_docc_reference_match with an identifier that
\* keeps the letter case of the label
pandoc_markdown_reference_keeps_case(t, mapping) ==
    IF Count(t, "#") > 0
    THEN IF Count(t, "#") # 1 THEN Raise("ValueError")
         ELSE LET section == From(t, Find(t, "#") + 1)
                  human_readable_label == Replace(section, "-", " ")
                  identifier == Replace(human_readable_label, " ", "-")
              IN Ok(<<"[">> \o human_readable_label \o <<"]","(","#">> \o identifier \o <<")">>)  \* "[" "](#" ")"
    ELSE IF t \notin DOMAIN mapping THEN Raise("KeyError")
    ELSE IF mapping[t].title = None THEN Raise("AttributeError")
    ELSE LET human_readable_label == mapping[t].title[1]
             identifier == Replace(human_readable_label, " ", "-")
         IN Ok(<<"[">> \o human_readable_label \o <<"]","(","#">> \o identifier \o <<")">>)  \* "[" "](#" ")"

\* pandoc_markdown_reference_for_docc_reference_match with an identifier that
\* leaves out the characters other than letters, digits, "_", "-" and " "
pandoc_markdown_reference_drops_punctuation(t, mapping) ==
    IF Count(t, "#") > 0
    THEN IF Count(t, "#") # 1 THEN Raise("ValueError")
         ELSE LET section == From(t, Find(t, "#") + 1)
                  human_readable_label == Replace(section, "-", " ")
                  kept == SelectSeq(human_readable_label, LAMBDA c : IsWord(c) \/ c = " ")
                  identifier == Replace(Lower(kept), " ", "-")
              IN Ok(<<"[">> \o human_readable_label \o <<"]","(","#">> \o identifier \o <<")">>)  \* "[" "](#" ")"
    ELSE IF t \notin DOMAIN mapping THEN Raise("KeyError")
    ELSE IF mapping[t].title = None THEN Raise("AttributeError")
    ELSE LET human_readable_label == mapping[t].title[1]
             kept == SelectSeq(human_readable_label,
                               LAMBDA c : IsWord(c) \/ c = " " \/ c = "-")
             identifier == Replace(Lower(kept), " ", "-")
         IN Ok(<<"[">> \o human_readable_label \o <<"]","(","#">> \o identifier \o <<")">>)  \* "[" "](#" ")"

\* pandoc_markdown_reference_for_docc_reference_match(match), t = match.group(1)
pandoc_markdown_reference_for_docc_reference_match(t, mapping) ==
    IF Count(t, "#") > 0
    THEN IF Count(t, "#") # 1 THEN Raise("ValueError")
         ELSE LET section == From(t, Find(t, "#") + 1)
                  human_readable_label == Replace(section, "-", " ")
                  identifier == Replace(Lower(human_readable_label), " ", "-")
              IN Ok(<<"[">> \o human_readable_label \o <<"]","(","#">> \o identifier \o <<")">>)  \* "[" "](#" ")"
    ELSE IF t \notin DOMAIN mapping THEN Raise("KeyError")
    ELSE IF mapping[t].title = None THEN Raise("AttributeError")
    ELSE LET human_readable_label == mapping[t].title[1]
             identifier == Replace(Lower(human_readable_label), " ", "-")
         IN Ok(<<"[">> \o human_readable_label \o <<"]","(","#">> \o identifier \o <<")">>)  \* "[" "](#" ")"

\* r'<doc:([\w#-]+)>' at position i of s: the length of the target, 0 when there
\* is no match
DocRefMatchLen(s, i) ==
    IF s[i] # "<" \/ ~At(s, i, <<"<","d","o","c",":">>) THEN 0  \* "<doc:"
    ELSE LET n == RunLen(s, i + 5, WordChars \cup {"#", "-"})
         IN IF n >= 1 /\ At(s, i + 5 + n, <<">">>) THEN n ELSE 0  \* ">"

\* re.sub(r'<doc:([\w#-]+)>', pandoc_markdown_reference_for_docc_reference_match, line),
\* from position i on: the matches are replaced from left to right and the first
\* exception raised by the replacement function ends the call
RECURSIVE SubInternalReferences(_, _, _)
SubInternalReferences(l, i, mapping) ==
    LET starts == {j \in i..Len(l) : DocRefMatchLen(l, j) > 0}
    IN IF starts = {} THEN Ok(From(l, i))
       ELSE LET j == CHOOSE x \in starts : \A y \in starts : x <= y
                n == DocRefMatchLen(l, j)
                first == pandoc_markdown_reference_for_docc_reference_match(
                             SubSeq(l, j + 5, j + 4 + n), mapping)
                rest == SubInternalReferences(l, j + n + 6, mapping)
            IN IF first.exc # "" THEN first
               ELSE IF rest.exc # "" THEN rest
               ELSE Ok(SubSeq(l, i, j - 1) \o first.line \o rest.line)

rewrite_docc_markdown_line_for_pandoc_internal_references(l, mapping) ==
    SubInternalReferences(l, 1, mapping)

\* the four rewrites in their fixed order; the first exception ends the call
rewrite_docc_markdown_line_for_pandoc(l, mapping, as) ==
    LET r1 == rewrite_docc_markdown_line_for_pandoc_internal_references(l, mapping)
        r3 == rewrite_docc_markdown_line_for_pandoc_image_reference(
                  rewrite_docc_markdown_line_for_pandoc_optionality_marker(r1.line), as)
    IN IF r1.exc # "" THEN r1
       ELSE IF r3.exc # "" THEN r3
       ELSE Ok(rewrite_docc_markdown_line_for_pandoc_heading_level_shift(r3.line))

-----------------------------------------------------------------------------
(* The Reference Index Builder *)

Scripts == {"make-offline-files.py", "make-offline-files-with-pandoc.py",
            "make-pdf-with-pandoc.py"}

\* last position of the character c in s, 0 when c does not occur
LastIndex(s, c) ==
    IF Count(s, c) = 0 THEN 0
    ELSE CHOOSE i \in DOMAIN s : s[i] = c /\ \A j \in (i + 1)..Len(s) : s[j] # c

\* path.stem: the final path component without its last suffix
Stem(path) ==
    LET name == From(path, LastIndex(path, "/") + 1)
        dot == LastIndex(name, ".")
    IN IF dot > 1 THEN SubSeq(name, 1, dot - 1) ELSE name

\* the content of the file at path (read_text, open)
FileText(path) == (CHOOSE f \in Range(files) : f.path = path).text

\* next((line[2:].strip() for line in f if line.startswith('# ')), None);
\* the two older scripts return line[2:] as it is
title_from_first_heading_in_markdown_file(t, scr) ==
    LET ls == FileLines(t)
        hs == {i \in DOMAIN ls : StartsWith(ls[i], <<"#"," ">>)}  \* "# "
    IN IF hs = {} THEN None
       ELSE LET first == ls[CHOOSE i \in hs : \A j \in hs : i <= j]
            IN IF scr = "make-offline-files.py"
               THEN Some(Strip(From(first, 3)))
               ELSE Some(From(first, 3))

\* dict([...]) after one more (stem, (path, title)) pair: a later pair replaces
\* an earlier one with the same stem
book_markdown_file_stems_to_paths_and_titles_mapping(mapping, path, scr) ==
    [s \in DOMAIN mapping \cup {Stem(path)} |->
        IF s = Stem(path)
        THEN [path |-> path,
              title |-> title_from_first_heading_in_markdown_file(FileText(path), scr)]
        ELSE mapping[s]]

-----------------------------------------------------------------------------
(* The Chapter Transpiler *)

NewPage == <<"\\","n","e","w","p","a","g","e","{","}">>  \* "\\newpage{}"

\* re.match(r'- term (.+):', line): the label, up to the last colon of the line
TermMatch(l) ==
    LET colon == LastIndex(l, ":")
    IN IF StartsWith(l, <<"-"," ","t","e","r","m"," ">>) /\ colon >= 9 THEN Some(SubSeq(l, 8, colon - 1)) ELSE None  \* "- term "

\* re.sub(r'<!--.+?-->', '', text, flags=re.DOTALL)
RECURSIVE StripComments(_)
StripComments(t) ==
    IF t = <<>> THEN <<>>
    ELSE LET ends == {j \in DOMAIN t : j >= 6 /\ At(t, j, <<"-","-",">">>)}  \* "-->"
         IN IF StartsWith(t, <<"<","!","-","-">>) /\ ends # {}  \* "<!--"
            THEN StripComments(From(t, (CHOOSE j \in ends : \A k \in ends : j <= k) + 3))
            ELSE <<Head(t)>> \o StripComments(Tail(t))

\* included_document_text with a lookup that takes a missing stem for an empty chapter
included_document_text_or_empty(markdown_file_stem, mapping) ==
    IF markdown_file_stem \notin DOMAIN mapping THEN Ok(<<>>)
    ELSE Ok(StripComments(FileText(mapping[markdown_file_stem].path)))

\* lines_for_included_document up to the call of the transpiler: the text of the
\* chapter file that the index names for the stem, without HTML comments
included_document_text(markdown_file_stem, mapping) ==
    IF markdown_file_stem \notin DOMAIN mapping THEN Raise("KeyError")
    ELSE Ok(StripComments(FileText(mapping[markdown_file_stem].path)))

\* lines_for_included_document without the empty line after the chapter
lines_for_included_document_unterminated(lines) == <<NewPage>> \o lines

\* lines_for_included_document after the transpiler has returned lines
lines_for_included_document(lines) == <<NewPage>> \o lines \o << <<>> >>

\* while markdown_lines or pushback
TranspilerRunning == markdown_lines # <<>> \/ Truthy(pushback)

\* FetchLine with the Line Rewriter applied to the pushed-back line as well
FetchLineRewritesPushback ==
    rewrite_docc_markdown_line_for_pandoc(
        IF Truthy(pushback) THEN pushback[1] ELSE Head(markdown_lines),
        paths_and_titles_mapping, assets)

\* the line the loop body works on: the pushed-back line as it is, or the next
\* input line after the Line Rewriter
FetchLine ==
    IF Truthy(pushback) THEN Ok(pushback[1])
    ELSE rewrite_docc_markdown_line_for_pandoc(Head(markdown_lines),
                                               paths_and_titles_mapping, assets)

-----------------------------------------------------------------------------
(* The Document Assembler *)

RootPath == <<"T","S","P","L",".","d","o","c","c","/","T","h","e","-","S","w","i","f","t","-","P","r","o","g","r","a","m","m","i","n","g","-","L","a","n","g","u","a","g","e",".","m","d">>  \* "TSPL.docc/The-Swift-Programming-Language.md"

\* DirectiveMatch with the pattern r'^- `<doc:(\w+)>`$': one space, nothing after
DirectiveMatchStrict(l) ==
    LET n == RunLen(l, 9, WordChars)
    IN IF StartsWith(l, <<"-"," ",Backtick,"<","d","o","c",":">>) /\ n >= 1 /\ From(l, 9 + n) = <<">",Backtick>>  \* "- `<doc:" ">`"
       THEN Some(SubSeq(l, 9, 8 + n))
       ELSE None

\* re.match(r'^-\s*`<doc:(\w+)>`.*$', line): the stem, None when there is no match
DirectiveMatch(l) ==
    LET k == RunLen(l, 2, SpaceChars)
        n == RunLen(l, 8 + k, WordChars)
    IN IF StartsWith(l, <<"-">>) /\ At(l, 2 + k, <<Backtick,"<","d","o","c",":">>) /\ n >= 1 /\ At(l, 8 + k + n, <<">",Backtick>>)  \* "-" "`<doc:" ">`"
       THEN Some(SubSeq(l, 8 + k, 7 + k + n))
       ELSE None

markdown_header_lines(first_level_1_heading, timestamp) ==
    << <<"-","-","-">>,  \* "---"
       <<"t","i","t","l","e",":"," ">> \o Format(first_level_1_heading),  \* "title: "
       <<"d","a","t","e",":"," ","\"">> \o timestamp \o <<"\"">>,  \* "date: \"" "\""
       <<"t","o","c",":"," ","t","r","u","e">>,  \* "toc: true"
       <<"t","o","c","-","d","e","p","t","h",":"," ","4">>,  \* "toc-depth: 4"
       <<"t","o","c","-","o","w","n","-","p","a","g","e",":"," ","t","r","u","e">>,  \* "toc-own-page: true"
       <<"t","i","t","l","e","p","a","g","e",":"," ","t","r","u","e">>,  \* "titlepage: true"
       <<"t","i","t","l","e","p","a","g","e","-","r","u","l","e","-","c","o","l","o","r",":"," ","\"","d","e","5","d","4","3","\"">>,  \* "titlepage-rule-color: \"de5d43\""
       <<"s","t","r","i","p","-","c","o","m","m","e","n","t","s",":"," ","t","r","u","e">>,  \* "strip-comments: true"
       <<"s","a","n","s","f","o","n","t",":"," ","\"","S","F"," ","P","r","o"," ","T","e","x","t"," ","H","e","a","v","y","\"">>,  \* "sansfont: \"SF Pro Text Heavy\""
       <<"m","a","i","n","f","o","n","t",":"," ","\"","S","F"," ","P","r","o"," ","T","e","x","t","\"">>,  \* "mainfont: \"SF Pro Text\""
       <<"m","a","i","n","f","o","n","t","f","a","l","l","b","a","c","k",":">>,  \* "mainfontfallback:"
       <<"-"," ","\"","A","p","p","l","e"," ","C","o","l","o","r"," ","E","m","o","j","i",":","m","o","d","e","=","h","a","r","f","\"">>,  \* "- \"Apple Color Emoji:mode=harf\""
       <<"-"," ","\"","H","e","l","v","e","t","i","c","a"," ","N","e","u","e",":","m","o","d","e","=","h","a","r","f","\"">>,  \* "- \"Helvetica Neue:mode=harf\""
       <<"m","o","n","o","f","o","n","t",":"," ","\"","M","e","n","l","o","\"">>,  \* "monofont: \"Menlo\""
       <<"m","o","n","o","f","o","n","t","o","p","t","i","o","n","s",":">>,  \* "monofontoptions:"
       <<"-"," ","\"","S","c","a","l","e","=","0",".","9","\"">>,  \* "- \"Scale=0.9\""
       <<"m","o","n","o","f","o","n","t","f","a","l","l","b","a","c","k",":">>,  \* "monofontfallback:"
       <<"-"," ","\"","S","a","t","h","u",":","m","o","d","e","=","h","a","r","f","\"">>,  \* "- \"Sathu:mode=harf\""
       <<"-"," ","\"","A","l"," ","N","i","l","e",":","m","o","d","e","=","h","a","r","f","\""," "," "," "," "," "," "," "," ">>,  \* "- \"Al Nile:mode=harf\"        "
       <<"-"," ","\"","A","p","p","l","e"," ","C","o","l","o","r"," ","E","m","o","j","i",":","m","o","d","e","=","h","a","r","f","\"">>,  \* "- \"Apple Color Emoji:mode=harf\""
       <<"-"," ","\"","A","p","p","l","e"," ","S","D"," ","G","o","t","h","i","c"," ","N","e","o",":","m","o","d","e","=","h","a","r","f","\"">>,  \* "- \"Apple SD Gothic Neo:mode=harf\""
       <<"-"," ","\"","H","i","r","a","g","i","n","o"," ","S","a","n","s",":","m","o","d","e","=","h","a","r","f","\"">>,  \* "- \"Hiragino Sans:mode=harf\""
       <<"f","o","n","t","s","i","z","e",":"," ","\"","1","0","p","t","\"">>,  \* "fontsize: \"10pt\""
       <<"l","i","s","t","i","n","g","s","-","d","i","s","a","b","l","e","-","l","i","n","e","-","n","u","m","b","e","r","s",":"," ","t","r","u","e">>,  \* "listings-disable-line-numbers: true"
       <<"l","i","s","t","i","n","g","s","-","n","o","-","p","a","g","e","-","b","r","e","a","k",":"," ","f","a","l","s","e">>,  \* "listings-no-page-break: false"
       <<"p","a","p","e","r","s","i","z","e",":"," ","l","e","t","t","e","r">>,  \* "papersize: letter"
       <<"-","-","-">> >>  \* "---"

-----------------------------------------------------------------------------
(* Inputs *)

MaxLines == 5
MaxRootLines == 4

SeqsUpTo(S, n) == UNION {[1..k -> S] : k \in 0..n}
\* a text file holding the given lines, each with its terminator
TextOf(ls) == Concat([i \in DOMAIN ls |-> ls[i] \o <<"\n">>])

FooPath == <<"T","S","P","L",".","d","o","c","c","/","G","u","i","d","e","/","F","o","o",".","m","d">>  \* "TSPL.docc/Guide/Foo.md"
BarPath == <<"T","S","P","L",".","d","o","c","c","/","R","e","f","/","B","a","r",".","m","d">>  \* "TSPL.docc/Ref/Bar.md"
OtherFooPath == <<"T","S","P","L",".","d","o","c","c","/","R","e","f","/","F","o","o",".","m","d">>  \* "TSPL.docc/Ref/Foo.md"

\* lines of a chapter that drive the transpiler's state machine
ChapterLines ==
    { <<"-"," ","t","e","r","m"," ","F","o","o",":">>, <<"B","o","d","y"," ","l","i","n","e"," ","o","n","e">>, <<" "," ","i","n","d","e","n","t","e","d"," ","l","i","n","e">>, <<>>, <<"N","e","x","t"," ","p","a","r","a","g","r","a","p","h">>,  \* "- term Foo:" "Body line one" "  indented line" "Next paragraph"
      <<"#"," ","H","e","a","d","i","n","g">> }  \* "# Heading"

\* lines of a chapter that the Line Rewriter changes, or fails on
RewriterLines ==
    { <<"S","e","e"," ","<","d","o","c",":","B","a","r",">"," ","a","n","d"," ","<","d","o","c",":","F","o","o",">",".">>, <<"<","d","o","c",":","F","o","o",">"," ","<","d","o","c",":","B","a","r",">">>, <<"<","d","o","c",":","B","a","r","#","S","o","m","e","-","S","e","c","t","i","o","n",">">>,  \* "See <doc:Bar> and <doc:Foo>." "<doc:Foo> <doc:Bar>" "<doc:Bar#Some-Section>"
      <<"<","d","o","c",":","B","a","z",">">>, <<"<","d","o","c",":","B","a","z","#","F","r","a","g",">">>, <<"<","d","o","c",":","F","o","o","#","a","#","b",">">>, <<"<","d","o","c",":",">">>, <<"<","d","o","c",":","F","o","o","#",">">>,  \* "<doc:Baz>" "<doc:Baz#Frag>" "<doc:Foo#a#b>" "<doc:>" "<doc:Foo#>"
      <<"#","#"," ","S","u","b"," ","<","d","o","c",":","F","o","o",">">>, <<"#"," ">>, <<"#","#"," ">>, <<"#","N","o","S","p","a","c","e">>, <<" ","#"," ","i","n","d","e","n","t","e","d">>, <<"#","#","#"," ","D","e","e","p">>,  \* "## Sub <doc:Foo>" "# " "## " "#NoSpace" " # indented" "### Deep"
      <<"!","[","C","a","p","]","(","p","i","c",")">>, <<"!","[","C","a","p","]","(","p","i","c",")"," ","t","a","i","l">>, <<"!","[","]","(","n","o","n","e",")">>, <<"!","[","C","a","p","]","(","b","a","d",")">>, <<"!","[","C","a","p","]","(","p","i","c",".","p","n","g",")">>,  \* "![Cap](pic)" "![Cap](pic) tail" "![](none)" "![Cap](bad)" "![Cap](pic.png)"
      <<"!","[","A"," ","w","i","d","e"," ","o","n","e","]","(","w","i","d","e","-","1",")">>, <<"!","[","]","(","t","i","n","y",")">>, <<"#"," ","!","[","C","a","p","]","(","p","i","c",")">>,  \* "![A wide one](wide-1)" "![](tiny)" "# ![Cap](pic)"
      <<"a"," ","*","*","_","?","_"," ","b","*","_","?","_">>, <<"*","*","*","_","?","_">>, <<"-"," ","t","e","r","m"," ","<","d","o","c",":","B","a","r",">",":">>, <<"p","l","a","i","n">> }  \* "a **_?_ b*_?_" "***_?_" "- term <doc:Bar>:" "plain"

\* lines of the root text after the heading shift
RootLines ==
    { <<"i","n","t","r","o">>, <<"#"," ","P","a","r","t">>, <<"-"," ",Backtick,"<","d","o","c",":","F","o","o",">",Backtick>>, <<"-"," "," ",Backtick,"<","d","o","c",":","B","a","r",">",Backtick," ","t","r","a","i","l","i","n","g">>, <<"-"," ",Backtick,"<","d","o","c",":","B","a","z",">",Backtick>> }  \* "intro" "# Part" "- `<doc:Foo>`" "-  `<doc:Bar>` trailing" "- `<doc:Baz>`"

TitledRootText == TextOf(<<<<"#"," ","T","h","e"," ","S","w","i","f","t"," ","P","r","o","g","r","a","m","m","i","n","g"," ","L","a","n","g","u","a","g","e">>, <<"t","e","x","t">>>>)  \* "# The Swift Programming Language" "text"
UntitledRootText == TextOf(<<<<"n","o"," ","h","e","a","d","i","n","g">>>>)  \* "no heading"
FooText == TextOf(<<<<"#"," ","F","o","o">>, <<"-"," ","t","e","r","m"," ","K","e","y",":">>, <<" "," ","d","e","f">>>>)  \* "# Foo" "- term Key:" "  def"
TitledBarText == TextOf(<<<<"#"," "," ","B","a","r"," ","C","h","a","p","t","e","r"," ">>, <<"<","!","-","-"," ","a">>, <<"-","-"," ","b"," ","-","-",">","S","e","e"," ","<","d","o","c",":","F","o","o",">",".">>>>)  \* "#  Bar Chapter " "<!-- a" "-- b -->See <doc:Foo>."
UntitledBarText == TextOf(<<<<"#","#"," ","B","a","r">>>>)  \* "## Bar"

\* root texts with any lines, over a fixed corpus
AssemblerInputs ==
    [main : {TextOf(ls) : ls \in SeqsUpTo(RootLines, MaxRootLines)},
     root : {TitledRootText}, foo : {FooText}, bar : {TitledBarText}]
\* one chapter of one line, or of a line and an image reference, with and
\* without titles in the corpus
RewriterInputs ==
    [main : {TextOf(<<<<"#"," ","P","a","r","t">>, <<"-"," ",Backtick,"<","d","o","c",":","F","o","o",">",Backtick>>>>)},  \* "# Part" "- `<doc:Foo>`"
     root : {TitledRootText, UntitledRootText},
     foo : {TextOf(<<l>>) : l \in RewriterLines}
           \cup {TextOf(<<<<"p","l","a","i","n">>, l>>) : l \in {<<"!","[","]","(","n","o","n","e",")">>, <<"!","[","C","a","p","]","(","b","a","d",")">>, <<"!","[","C","a","p","]","(","p","i","c",")">>}},  \* "plain" "![](none)" "![Cap](bad)" "![Cap](pic)"
     bar : {TitledBarText, UntitledBarText}]

\* TSPL.docc/Assets: the name prefixes of the @2x.png files there, each with the
\* width file(1) reports for it (None when it reports no PNG width)
Assets ==
    [p \in {<<"p","i","c">>, <<"w","i","d","e","-","1">>, <<"t","i","n","y">>, <<"b","a","d">>} |->  \* "pic" "wide-1" "tiny" "bad"
        CASE p = <<"p","i","c">> -> Some(1520)  \* "pic"
          [] p = <<"w","i","d","e","-","1">> -> Some(1000)  \* "wide-1"
          [] p = <<"t","i","n","y">> -> Some(15)  \* "tiny"
          [] p = <<"b","a","d">> -> None]  \* "bad"

Idle2 ==
    /\ rglob = <<>>
    /\ combined_book_markdown_lines = <<>>
    /\ state = "WAITING_FOR_FIRST_HEADING"
    /\ main_lines = <<>>
    /\ text = <<>>
    /\ markdown_lines = <<>>
    /\ pushback = None
    /\ tstate = "START"
    /\ out = <<>>
    /\ included = <<>>
    /\ error = ""
    /\ combined_file = None
    /\ option_sets = <<>>
    /\ stdout = <<>>
    /\ exit_status = None

\* the run of make-offline-files.py, from the call of generate_output
Init ==
    /\ \E i \in AssemblerInputs \cup RewriterInputs :
          /\ files = << [path |-> RootPath, text |-> i.root],
                        [path |-> FooPath, text |-> i.foo],
                        [path |-> BarPath, text |-> i.bar] >>
          /\ main_markdown_file_text = i.main
    /\ script = "make-offline-files.py"
    /\ assets = Assets
    /\ pc = "combine"
    /\ paths_and_titles_mapping = <<>>
    /\ line = None
    /\ Idle2

-----------------------------------------------------------------------------
(* The run *)

\* an uncaught exception ends the process with status 1
Abort(exc) ==
    /\ error' = exc
    /\ pc' = "exit"
    /\ exit_status' = Some(1)

\* combine_and_rewrite_markdown_files: the heading-shift pandoc call (check=True)
ShiftMainFile ==
    /\ pc = "combine"
    /\ \E returncode \in {0, 1} :
          IF returncode # 0
          THEN /\ Abort("CalledProcessError")
               /\ UNCHANGED rglob
          ELSE /\ pc' = "index"
               /\ rglob' = [i \in DOMAIN files |-> files[i].path]
               /\ UNCHANGED <<error, exit_status>>
    /\ UNCHANGED <<script, files, assets, main_markdown_file_text,
                   paths_and_titles_mapping, combined_book_markdown_lines, state,
                   main_lines, text, markdown_lines, pushback, tstate, out, line,
                   included, combined_file, option_sets, stdout>>

\* one path of the comprehension over book_path.rglob('*.md')
IndexFile ==
    /\ pc = "index"
    /\ rglob # <<>>
    /\ paths_and_titles_mapping' =
           book_markdown_file_stems_to_paths_and_titles_mapping(
               paths_and_titles_mapping, Head(rglob), script)
    /\ rglob' = Tail(rglob)
    /\ UNCHANGED <<pc, script, files, assets, main_markdown_file_text,
                   combined_book_markdown_lines, state, main_lines, text,
                   markdown_lines, pushback, tstate, out, line, included, error,
                   combined_file, option_sets, stdout, exit_status>>

\* markdown_header_lines, then the set-up of the assembler's loop.
\* git_tag_or_ref: the tag or branch of the checkout, None when git names none;
\* timestamp: the tagger date or else the commit date, stripped
MarkdownHeader ==
    /\ pc = "index"
    /\ rglob = <<>>
    /\ \E git_tag_or_ref \in {None, Some(<<"m","a","i","n">>)}, timestamp \in {<<>>, <<"2","0","2","4","-","0","9","-","1","6">>} :  \* "main" "2024-09-16"
          IF git_tag_or_ref = None
          THEN /\ Abort("CalledProcessError")
               /\ UNCHANGED <<combined_book_markdown_lines, state, main_lines>>
          ELSE IF Len(timestamp) = 0
          THEN /\ Abort("AssertionError")
               /\ UNCHANGED <<combined_book_markdown_lines, state, main_lines>>
          ELSE /\ combined_book_markdown_lines' =
                      markdown_header_lines(
                          title_from_first_heading_in_markdown_file(FileText(RootPath), script),
                          timestamp)
               /\ state' = "WAITING_FOR_FIRST_HEADING"
               /\ main_lines' = SplitLines(main_markdown_file_text)
               /\ pc' = "assemble"
               /\ UNCHANGED <<error, exit_status>>
    /\ UNCHANGED <<script, files, assets, main_markdown_file_text, rglob,
                   paths_and_titles_mapping, text, markdown_lines, pushback, tstate,
                   out, line, included, combined_file, option_sets, stdout>>

\* AssembleLine with the inclusion directives handled in both states of the loop
AssembleLineNoWaiting ==
    /\ pc = "assemble"
    /\ main_lines # <<>>
    /\ LET l == Head(main_lines)
           m == DirectiveMatch(l)
       IN /\ main_lines' = Tail(main_lines)
          /\ IF state = "WAITING_FOR_FIRST_HEADING" /\ m = None
             THEN /\ IF StartsWith(l, <<"#"," ">>)  \* "# "
                     THEN /\ state' = "PROCESSING_DOCUMENT_INCLUDES"
                          /\ combined_book_markdown_lines' =
                                 Append(combined_book_markdown_lines, l)
                     ELSE UNCHANGED <<state, combined_book_markdown_lines>>
                  /\ UNCHANGED <<pc, text, markdown_lines, pushback, tstate, out, line,
                                 included, error, exit_status>>
             ELSE IF m # None
             THEN IF included_document_text(m[1], paths_and_titles_mapping).exc # ""
                  THEN /\ Abort(included_document_text(m[1], paths_and_titles_mapping).exc)
                       /\ UNCHANGED <<state, combined_book_markdown_lines, text,
                                      markdown_lines, pushback, tstate, out, line, included>>
                  ELSE /\ text' = included_document_text(m[1], paths_and_titles_mapping).line
                       /\ markdown_lines' = SplitLines(text')
                       /\ tstate' = "START"
                       /\ pushback' = None
                       /\ out' = <<>>
                       /\ line' = None
                       /\ included' = Append(included,
                              [stem |-> m[1], first |-> 0, last |-> 0])
                       /\ pc' = "transpile"
                       /\ UNCHANGED <<state, combined_book_markdown_lines, error, exit_status>>
             ELSE /\ combined_book_markdown_lines' =
                         combined_book_markdown_lines
                         \o (IF StartsWith(l, <<"#"," ">>) THEN <<NewPage>> ELSE <<>>) \o <<l>>  \* "# "
                  /\ UNCHANGED <<pc, state, text, markdown_lines, pushback, tstate, out,
                                 line, included, error, exit_status>>
    /\ UNCHANGED <<script, files, assets, main_markdown_file_text, rglob,
                   paths_and_titles_mapping, combined_file, option_sets, stdout>>

\* one iteration of the for loop of preprocess_main_file_markdown, up to the call
\* of the chapter transpiler when the line is an inclusion directive
AssembleLine ==
    /\ pc = "assemble"
    /\ main_lines # <<>>
    /\ LET l == Head(main_lines)
           m == DirectiveMatch(l)
       IN /\ main_lines' = Tail(main_lines)
          /\ IF state = "WAITING_FOR_FIRST_HEADING"
             THEN /\ IF StartsWith(l, <<"#"," ">>)  \* "# "
                     THEN /\ state' = "PROCESSING_DOCUMENT_INCLUDES"
                          /\ combined_book_markdown_lines' =
                                 Append(combined_book_markdown_lines, l)
                     ELSE UNCHANGED <<state, combined_book_markdown_lines>>
                  /\ UNCHANGED <<pc, text, markdown_lines, pushback, tstate, out, line,
                                 included, error, exit_status>>
             ELSE IF m # None
             THEN IF included_document_text(m[1], paths_and_titles_mapping).exc # ""
                  THEN /\ Abort(included_document_text(m[1], paths_and_titles_mapping).exc)
                       /\ UNCHANGED <<state, combined_book_markdown_lines, text,
                                      markdown_lines, pushback, tstate, out, line, included>>
                  ELSE /\ text' = included_document_text(m[1], paths_and_titles_mapping).line
                       /\ markdown_lines' = SplitLines(text')
                       /\ tstate' = "START"
                       /\ pushback' = None
                       /\ out' = <<>>
                       /\ line' = None
                       /\ included' = Append(included,
                              [stem |-> m[1], first |-> 0, last |-> 0])
                       /\ pc' = "transpile"
                       /\ UNCHANGED <<state, combined_book_markdown_lines, error, exit_status>>
             ELSE /\ combined_book_markdown_lines' =
                         combined_book_markdown_lines
                         \o (IF StartsWith(l, <<"#"," ">>) THEN <<NewPage>> ELSE <<>>) \o <<l>>  \* "# "
                  /\ UNCHANGED <<pc, state, text, markdown_lines, pushback, tstate, out,
                                 line, included, error, exit_status>>
    /\ UNCHANGED <<script, files, assets, main_markdown_file_text, rglob,
                   paths_and_titles_mapping, combined_file, option_sets, stdout>>

\* TranspileLine with a block-ending step that goes back to START without
\* pushing the line back
TranspileLineDropsBlockEnd(l) ==
    CASE tstate = "START" ->
            /\ IF TermMatch(l) # None
               THEN /\ out' = Append(out, TermMatch(l)[1])
                    /\ tstate' = "START_DEFINITION_LIST"
               ELSE /\ out' = Append(out, l)
                    /\ UNCHANGED tstate
            /\ pushback' = IF Truthy(pushback) THEN None ELSE pushback
      [] tstate = "START_DEFINITION_LIST" ->
            /\ pushback' = Some(l)
            /\ out' = Append(out, <<>>)
            /\ tstate' = "READING_DEFINITION_LIST_DEFINITION_FIRST_LINE"
      [] tstate = "READING_DEFINITION_LIST_DEFINITION_FIRST_LINE" ->
            /\ out' = Append(out, <<":"," "," "," "," ">> \o Lstrip(l))  \* ":    "
            /\ tstate' = "READING_DEFINITION_LIST_DEFINITION"
            /\ pushback' = IF Truthy(pushback) THEN None ELSE pushback
      [] tstate = "READING_DEFINITION_LIST_DEFINITION" ->
            IF l = <<>>
            THEN /\ out' = Append(out, <<>>)
                 /\ pushback' = IF Truthy(pushback) THEN None ELSE pushback
                 /\ UNCHANGED tstate
            ELSE IF IsSpace(l[1])
            THEN /\ out' = Append(out, <<" "," "," "," ">> \o Lstrip(l))  \* "    "
                 /\ pushback' = IF Truthy(pushback) THEN None ELSE pushback
                 /\ UNCHANGED tstate
            ELSE /\ tstate' = "START"
                 /\ pushback' = IF Truthy(pushback) THEN None ELSE pushback
                 /\ UNCHANGED out

\* TranspileLine with the lines of a definition body emitted as they are
TranspileLineKeepsIndent(l) ==
    CASE tstate = "START" ->
            /\ IF TermMatch(l) # None
               THEN /\ out' = Append(out, TermMatch(l)[1])
                    /\ tstate' = "START_DEFINITION_LIST"
               ELSE /\ out' = Append(out, l)
                    /\ UNCHANGED tstate
            /\ pushback' = IF Truthy(pushback) THEN None ELSE pushback
      [] tstate = "START_DEFINITION_LIST" ->
            /\ pushback' = Some(l)
            /\ out' = Append(out, <<>>)
            /\ tstate' = "READING_DEFINITION_LIST_DEFINITION_FIRST_LINE"
      [] tstate = "READING_DEFINITION_LIST_DEFINITION_FIRST_LINE" ->
            /\ out' = Append(out, <<":"," "," "," "," ">> \o Lstrip(l))  \* ":    "
            /\ tstate' = "READING_DEFINITION_LIST_DEFINITION"
            /\ pushback' = IF Truthy(pushback) THEN None ELSE pushback
      [] tstate = "READING_DEFINITION_LIST_DEFINITION" ->
            IF l = <<>> \/ IsSpace(l[1])
            THEN /\ out' = Append(out, l)
                 /\ pushback' = IF Truthy(pushback) THEN None ELSE pushback
                 /\ UNCHANGED tstate
            ELSE /\ tstate' = "START"
                 /\ pushback' = Some(l)
                 /\ UNCHANGED out

\* TranspileLine with a block-ending step that emits the line as it is and
\* goes back to START, without pushing the line back
TranspileLineEmitsBlockEnd(l) ==
    CASE tstate = "START" ->
            /\ IF TermMatch(l) # None
               THEN /\ out' = Append(out, TermMatch(l)[1])
                    /\ tstate' = "START_DEFINITION_LIST"
               ELSE /\ out' = Append(out, l)
                    /\ UNCHANGED tstate
            /\ pushback' = IF Truthy(pushback) THEN None ELSE pushback
      [] tstate = "START_DEFINITION_LIST" ->
            /\ pushback' = Some(l)
            /\ out' = Append(out, <<>>)
            /\ tstate' = "READING_DEFINITION_LIST_DEFINITION_FIRST_LINE"
      [] tstate = "READING_DEFINITION_LIST_DEFINITION_FIRST_LINE" ->
            /\ out' = Append(out, <<":"," "," "," "," ">> \o Lstrip(l))  \* ":    "
            /\ tstate' = "READING_DEFINITION_LIST_DEFINITION"
            /\ pushback' = IF Truthy(pushback) THEN None ELSE pushback
      [] tstate = "READING_DEFINITION_LIST_DEFINITION" ->
            IF l = <<>>
            THEN /\ out' = Append(out, <<>>)
                 /\ pushback' = IF Truthy(pushback) THEN None ELSE pushback
                 /\ UNCHANGED tstate
            ELSE IF IsSpace(l[1])
            THEN /\ out' = Append(out, <<" "," "," "," ">> \o Lstrip(l))  \* "    "
                 /\ pushback' = IF Truthy(pushback) THEN None ELSE pushback
                 /\ UNCHANGED tstate
            ELSE /\ tstate' = "START"
                 /\ pushback' = IF Truthy(pushback) THEN None ELSE pushback
                 /\ out' = Append(out, l)

\* TranspileLine with a term line recognised in the state
\* READING_DEFINITION_LIST_DEFINITION_FIRST_LINE as well
TranspileLineTermInFirstLine(l) ==
    CASE tstate = "START" ->
            /\ IF TermMatch(l) # None
               THEN /\ out' = Append(out, TermMatch(l)[1])
                    /\ tstate' = "START_DEFINITION_LIST"
               ELSE /\ out' = Append(out, l)
                    /\ UNCHANGED tstate
            /\ pushback' = IF Truthy(pushback) THEN None ELSE pushback
      [] tstate = "START_DEFINITION_LIST" ->
            /\ pushback' = Some(l)
            /\ out' = Append(out, <<>>)
            /\ tstate' = "READING_DEFINITION_LIST_DEFINITION_FIRST_LINE"
      [] tstate = "READING_DEFINITION_LIST_DEFINITION_FIRST_LINE" ->
            /\ IF TermMatch(l) # None
               THEN /\ out' = Append(out, TermMatch(l)[1])
                    /\ tstate' = "START_DEFINITION_LIST"
               ELSE /\ out' = Append(out, <<":"," "," "," "," ">> \o Lstrip(l))  \* ":    "
                    /\ tstate' = "READING_DEFINITION_LIST_DEFINITION"
            /\ pushback' = IF Truthy(pushback) THEN None ELSE pushback
      [] tstate = "READING_DEFINITION_LIST_DEFINITION" ->
            IF l = <<>>
            THEN /\ out' = Append(out, <<>>)
                 /\ pushback' = IF Truthy(pushback) THEN None ELSE pushback
                 /\ UNCHANGED tstate
            ELSE IF IsSpace(l[1])
            THEN /\ out' = Append(out, <<" "," "," "," ">> \o Lstrip(l))  \* "    "
                 /\ pushback' = IF Truthy(pushback) THEN None ELSE pushback
                 /\ UNCHANGED tstate
            ELSE /\ tstate' = "START"
                 /\ pushback' = Some(l)
                 /\ UNCHANGED out

\* the state machine of rewrite_docc_markdown_chapter_file_for_pandoc on line l
TranspileLine(l) ==
    CASE tstate = "START" ->
            /\ IF TermMatch(l) # None
               THEN /\ out' = Append(out, TermMatch(l)[1])
                    /\ tstate' = "START_DEFINITION_LIST"
               ELSE /\ out' = Append(out, l)
                    /\ UNCHANGED tstate
            /\ pushback' = IF Truthy(pushback) THEN None ELSE pushback
      [] tstate = "START_DEFINITION_LIST" ->
            /\ pushback' = Some(l)
            /\ out' = Append(out, <<>>)
            /\ tstate' = "READING_DEFINITION_LIST_DEFINITION_FIRST_LINE"
      [] tstate = "READING_DEFINITION_LIST_DEFINITION_FIRST_LINE" ->
            /\ out' = Append(out, <<":"," "," "," "," ">> \o Lstrip(l))  \* ":    "
            /\ tstate' = "READING_DEFINITION_LIST_DEFINITION"
            /\ pushback' = IF Truthy(pushback) THEN None ELSE pushback
      [] tstate = "READING_DEFINITION_LIST_DEFINITION" ->
            IF l = <<>>
            THEN /\ out' = Append(out, <<>>)
                 /\ pushback' = IF Truthy(pushback) THEN None ELSE pushback
                 /\ UNCHANGED tstate
            ELSE IF IsSpace(l[1])
            THEN /\ out' = Append(out, <<" "," "," "," ">> \o Lstrip(l))  \* "    "
                 /\ pushback' = IF Truthy(pushback) THEN None ELSE pushback
                 /\ UNCHANGED tstate
            ELSE /\ tstate' = "START"
                 /\ pushback' = Some(l)
                 /\ UNCHANGED out

\* one iteration of the while loop of the chapter transpiler
TranspileStep ==
    /\ pc = "transpile"
    /\ TranspilerRunning
    /\ LET fetched == FetchLine
       IN IF fetched.exc # ""
          THEN /\ Abort(fetched.exc)
               /\ markdown_lines' = Tail(markdown_lines)
               /\ UNCHANGED <<pushback, tstate, out, line>>
          ELSE /\ line' = Some(fetched.line)
               /\ markdown_lines' =
                      IF Truthy(pushback) THEN markdown_lines ELSE Tail(markdown_lines)
               /\ TranspileLine(fetched.line)
               /\ UNCHANGED <<pc, error, exit_status>>
    /\ UNCHANGED <<script, files, assets, main_markdown_file_text, rglob,
                   paths_and_titles_mapping, combined_book_markdown_lines, state,
                   main_lines, text, included, combined_file, option_sets, stdout>>

\* the loop has ended: lines_for_included_document returns and the block is
\* appended to the combined document
TranspileReturn ==
    /\ pc = "transpile"
    /\ ~TranspilerRunning
    /\ combined_book_markdown_lines' =
           combined_book_markdown_lines \o lines_for_included_document(out)
    /\ included' = [included EXCEPT ![Len(included)] =
           [@ EXCEPT !.first = Len(combined_book_markdown_lines) + 1,
                     !.last = Len(combined_book_markdown_lines')]]
    /\ pc' = "assemble"
    /\ UNCHANGED <<script, files, assets, main_markdown_file_text, rglob,
                   paths_and_titles_mapping, state, main_lines, text, markdown_lines,
                   pushback, tstate, out, line, error, combined_file, option_sets,
                   stdout, exit_status>>

\* the command-line arguments of main, after expanduser
PandocPath == <<"/","u","s","r","/","l","o","c","a","l","/","b","i","n","/","p","a","n","d","o","c">>  \* "/usr/local/bin/pandoc"
OutputPathPdf == <<"T","h","e","-","S","w","i","f","t","-","P","r","o","g","r","a","m","m","i","n","g","-","L","a","n","g","u","a","g","e",".","p","d","f">>  \* "The-Swift-Programming-Language.pdf"
OutputPathEpub == <<"T","h","e","-","S","w","i","f","t","-","P","r","o","g","r","a","m","m","i","n","g","-","L","a","n","g","u","a","g","e",".","e","p","u","b">>  \* "The-Swift-Programming-Language.epub"
\* output_path_pdf.with_suffix('.tex')
OutputPathTex == <<"T","h","e","-","S","w","i","f","t","-","P","r","o","g","r","a","m","m","i","n","g","-","L","a","n","g","u","a","g","e",".","t","e","x">>  \* "The-Swift-Programming-Language.tex"
CombinedMarkdownPath == <<"s","w","i","f","t","b","o","o","k","-","c","o","m","b","i","n","e","d",".","m","d">>  \* "swiftbook-combined.md"

common_options ==
    << <<"-","-","f","r","o","m">>, <<"m","a","r","k","d","o","w","n">>, CombinedMarkdownPath,  \* "--from" "markdown"
       <<"-","-","r","e","s","o","u","r","c","e","-","p","a","t","h">>, <<"T","S","P","L",".","d","o","c","c","/","A","s","s","e","t","s">>,  \* "--resource-path" "TSPL.docc/Assets"
       <<"-","-","h","i","g","h","l","i","g","h","t","-","s","t","y","l","e">>, <<"t","s","p","l","-","c","o","d","e","-","h","i","g","h","l","i","g","h","t",".","t","h","e","m","e">>,  \* "--highlight-style" "tspl-code-highlight.theme"
       <<"-","-","s","t","a","n","d","a","l","o","n","e">>,  \* "--standalone"
       <<"-","-","l","u","a","-","f","i","l","t","e","r">>, <<"r","e","w","r","i","t","e","-","r","e","t","i","n","a","-","i","m","a","g","e","-","r","e","f","e","r","e","n","c","e","s",".","l","u","a">> >>  \* "--lua-filter" "rewrite-retina-image-references.lua"

epub_options ==
    << <<"-","-","t","o">>, <<"e","p","u","b","3">>,  \* "--to" "epub3"
       <<"-","-","t","o","c">>,  \* "--toc"
       <<"-","-","s","p","l","i","t","-","l","e","v","e","l","=","2">>,  \* "--split-level=2"
       <<"-","-","e","p","u","b","-","e","m","b","e","d","-","f","o","n","t","=","/","L","i","b","r","a","r","y","/","F","o","n","t","s","/","S","F","-","P","r","o","-","T","e","x","t","-","R","e","g","u","l","a","r",".","o","t","f">>,  \* "--epub-embed-font=/Library/Fonts/SF-Pro-Text-Regular.otf"
       <<"-","-","e","p","u","b","-","e","m","b","e","d","-","f","o","n","t","=","/","L","i","b","r","a","r","y","/","F","o","n","t","s","/","S","F","-","P","r","o","-","T","e","x","t","-","R","e","g","u","l","a","r","I","t","a","l","i","c",".","o","t","f">>,  \* "--epub-embed-font=/Library/Fonts/SF-Pro-Text-RegularItalic.otf"
       <<"-","-","e","p","u","b","-","e","m","b","e","d","-","f","o","n","t","=","/","L","i","b","r","a","r","y","/","F","o","n","t","s","/","S","F","-","P","r","o","-","T","e","x","t","-","B","o","l","d",".","o","t","f">>,  \* "--epub-embed-font=/Library/Fonts/SF-Pro-Text-Bold.otf"
       <<"-","-","e","p","u","b","-","e","m","b","e","d","-","f","o","n","t","=","/","L","i","b","r","a","r","y","/","F","o","n","t","s","/","S","F","-","P","r","o","-","T","e","x","t","-","B","o","l","d","I","t","a","l","i","c",".","o","t","f">>,  \* "--epub-embed-font=/Library/Fonts/SF-Pro-Text-BoldItalic.otf"
       <<"-","-","e","p","u","b","-","e","m","b","e","d","-","f","o","n","t","=","/","L","i","b","r","a","r","y","/","F","o","n","t","s","/","S","F","-","M","o","n","o",".","t","t","c">>,  \* "--epub-embed-font=/Library/Fonts/SF-Mono.ttc"
       <<"-","-","c","s","s">>, <<"t","s","p","l","-","e","p","u","b",".","c","s","s">>,  \* "--css" "tspl-epub.css"
       <<"-","-","o","u","t","p","u","t">>, OutputPathEpub >>  \* "--output"

pdf_options ==
    << <<"-","-","t","o">>, <<"p","d","f">>,  \* "--to" "pdf"
       <<"-","-","p","d","f","-","e","n","g","i","n","e">>, <<"l","u","a","l","a","t","e","x">>,  \* "--pdf-engine" "lualatex"
       <<"-","-","v","a","r","i","a","b","l","e">>, <<"l","i","n","k","c","o","l","o","r","=","[","H","T","M","L","]","{","d","e","5","d","4","3","}">>,  \* "--variable" "linkcolor=[HTML]{de5d43}"
       <<"-","-","t","e","m","p","l","a","t","e">>, <<"t","s","p","l","-","p","a","n","d","o","c","-","t","e","m","p","l","a","t","e">>,  \* "--template" "tspl-pandoc-template"
       <<"-","-","o","u","t","p","u","t">>, OutputPathPdf >>  \* "--output"

\* the option sets generate_output builds
OptionSets(debug_latex) ==
    IF debug_latex
    THEN << common_options \o << <<"-","-","t","o">>, <<"l","a","t","e","x">>, <<"-","-","o","u","t","p","u","t">>, OutputPathTex >> >>  \* "--to" "latex" "--output"
    ELSE << common_options \o epub_options, common_options \o pdf_options >>

\* shlex.quote: '' for the empty string, s itself when it has only safe
\* characters, else s in single quotes with each ' written as '"'"'
ShlexSafeChars == WordChars \cup {"@", "%", "+", "=", ":", ",", ".", "/", "-"}
RECURSIVE ShlexEscape(_)
ShlexEscape(s) ==
    IF s = <<>> THEN <<>>
    ELSE (IF Head(s) = "'" THEN <<"'","\"","'","\"","'">> ELSE <<Head(s)>>) \o ShlexEscape(Tail(s))  \* "'\"'\"'"
shlex_quote(s) ==
    IF s = <<>> THEN <<"'","'">>  \* "''"
    ELSE IF \A i \in DOMAIN s : s[i] \in ShlexSafeChars THEN s
    ELSE <<"'">> \o ShlexEscape(s) \o <<"'">>  \* "'" "'"
\* shlex.join(cmd)
shlex_join(cmd) == Join([i \in DOMAIN cmd |-> shlex_quote(cmd[i])], <<" ">>)

\* next(x for i, x in enumerate(options) if i and options[i - 1] == '--output')
OutputOption(options) ==
    options[CHOOSE i \in 2..Len(options) :
                /\ options[i - 1] = <<"-","-","o","u","t","p","u","t">>  \* "--output"
                /\ \A j \in 2..(i - 1) : options[j - 1] # <<"-","-","o","u","t","p","u","t">>]  \* "--output"

\* the loop over the root text has ended: the combined document is written and
\* generate_output goes on to the renderer, unless --preprocess-markdown-only
WriteCombined ==
    /\ pc = "assemble"
    /\ main_lines = <<>>
    /\ combined_file' = Some(Join(combined_book_markdown_lines, <<"\n">>))
    /\ stdout' = Append(stdout, [msg |-> "Preprocessed Markdown content written to",
                                 arg |-> CombinedMarkdownPath])
    /\ \E preprocess_markdown_only \in BOOLEAN, debug_latex \in BOOLEAN :
          IF preprocess_markdown_only
          THEN /\ pc' = "exit"
               /\ exit_status' = Some(0)
               /\ UNCHANGED option_sets
          ELSE /\ pc' = "render"
               /\ option_sets' = OptionSets(debug_latex)
               /\ UNCHANGED exit_status
    /\ UNCHANGED <<script, files, assets, main_markdown_file_text, rglob,
                   paths_and_titles_mapping, combined_book_markdown_lines, state,
                   main_lines, text, markdown_lines, pushback, tstate, out, line,
                   included, error>>

\* RunPandoc with subprocess.run(cmd, text=True, check=True): a nonzero return
\* code raises CalledProcessError
RunPandocChecked ==
    /\ pc = "render"
    /\ option_sets # <<>>
    /\ \E returncode \in {0, 1} :
          IF returncode # 0
          THEN /\ Abort("CalledProcessError")
               /\ UNCHANGED stdout
          ELSE /\ stdout' = Append(stdout, [msg |-> "Output written to",
                                            arg |-> OutputOption(Head(option_sets))])
               /\ UNCHANGED <<pc, error, exit_status>>
    /\ option_sets' = Tail(option_sets)
    /\ UNCHANGED <<script, files, assets, main_markdown_file_text, rglob,
                   paths_and_titles_mapping, combined_book_markdown_lines, state,
                   main_lines, text, markdown_lines, pushback, tstate, out, line,
                   included, combined_file>>

\* one iteration of the loop over option_sets: subprocess.run of pandoc
RunPandoc ==
    /\ pc = "render"
    /\ option_sets # <<>>
    /\ \E returncode \in {0, 1} :
          LET options == Head(option_sets)
              cmd == <<PandocPath>> \o options
          IN stdout' = Append(stdout,
                 IF returncode # 0
                 THEN [msg |-> "pandoc command execution failure:", arg |-> shlex_join(cmd)]
                 ELSE [msg |-> "Output written to", arg |-> OutputOption(options)])
    /\ option_sets' = Tail(option_sets)
    /\ UNCHANGED <<pc, script, files, assets, main_markdown_file_text, rglob,
                   paths_and_titles_mapping, combined_book_markdown_lines, state,
                   main_lines, text, markdown_lines, pushback, tstate, out, line,
                   included, error, combined_file, exit_status>>

\* generate_output and main return: sys.exit(None)
Exit ==
    /\ pc = "render"
    /\ option_sets = <<>>
    /\ pc' = "exit"
    /\ exit_status' = Some(0)
    /\ UNCHANGED <<script, files, assets, main_markdown_file_text, rglob,
                   paths_and_titles_mapping, combined_book_markdown_lines, state,
                   main_lines, text, markdown_lines, pushback, tstate, out, line,
                   included, error, combined_file, option_sets, stdout>>

Next ==
    \/ ShiftMainFile
    \/ IndexFile
    \/ MarkdownHeader
    \/ AssembleLine
    \/ TranspileStep
    \/ TranspileReturn
    \/ WriteCombined
    \/ RunPandoc
    \/ Exit

Spec == Init /\ [][Next]_vars

-----------------------------------------------------------------------------
(* The Chapter Transpiler on its own: rewrite_docc_markdown_chapter_file_for_pandoc
   called with any list of at most MaxLines lines *)

TitledMapping ==
    [s \in {<<"F","o","o">>, <<"B","a","r">>} |->  \* "Foo" "Bar"
        IF s = <<"F","o","o">> THEN [path |-> FooPath, title |-> Some(<<"F","o","o">>)]  \* "Foo" "Foo"
        ELSE [path |-> BarPath, title |-> Some(<<"B","a","r"," ","C","h","a","p","t","e","r">>)]]  \* "Bar Chapter"

InitTranspiler ==
    /\ \E ls \in SeqsUpTo(ChapterLines, MaxLines) :
          /\ text = TextOf(ls)
          /\ markdown_lines = ls
    /\ files = <<>>
    /\ main_markdown_file_text = <<>>
    /\ script = "make-offline-files.py"
    /\ assets = Assets
    /\ pc = "transpile"
    /\ rglob = <<>>
    /\ paths_and_titles_mapping = TitledMapping
    /\ combined_book_markdown_lines = <<>>
    /\ state = "PROCESSING_DOCUMENT_INCLUDES"
    /\ main_lines = <<>>
    /\ pushback = None
    /\ tstate = "START"
    /\ out = <<>>
    /\ line = None
    /\ included = <<>>
    /\ error = ""
    /\ combined_file = None
    /\ option_sets = <<>>
    /\ stdout = <<>>
    /\ exit_status = None

NextTranspiler == TranspileStep

SpecTranspiler == InitTranspiler /\ [][NextTranspiler]_vars

-----------------------------------------------------------------------------
(* The Line Rewriter on its own: rewrite_docc_markdown_line_for_pandoc called
   with any line and any index, one rewrite per step *)

\* titles as the index holds them: stripped, or None
Titles == { None, Some(<<"F","o","o">>), Some(<<"f","o","o">>), Some(<<"F","o","o","!">>), Some(<<"B","a","r"," ","C","h","a","p","t","e","r">>),  \* "Foo" "foo" "Foo!" "Bar Chapter"
            Some(<<"B","a","r","-","c","h","a","p","t","e","r">>), Some(<<>>) }  \* "Bar-chapter"

LineMappings ==
    { [s \in {<<"F","o","o">>, <<"B","a","r">>} |->  \* "Foo" "Bar"
          IF s = <<"F","o","o">> THEN [path |-> FooPath, title |-> tf]  \* "Foo"
          ELSE [path |-> BarPath, title |-> tb]] : tf \in Titles, tb \in Titles }

InitLine ==
    /\ line \in {Some(l) : l \in RewriterLines \cup ChapterLines}
    /\ paths_and_titles_mapping \in LineMappings
    /\ files = <<>>
    /\ main_markdown_file_text = <<>>
    /\ script = "make-offline-files.py"
    /\ assets = Assets
    /\ pc = "internal_references"
    /\ Idle2

\* a rewrite raised: the exception leaves rewrite_docc_markdown_line_for_pandoc
RaiseFromRewriter(exc) ==
    /\ error' = exc
    /\ pc' = "raised"
    /\ UNCHANGED line

RewriteInternalReferences ==
    /\ pc = "internal_references"
    /\ LET r == rewrite_docc_markdown_line_for_pandoc_internal_references(
                    line[1], paths_and_titles_mapping)
       IN IF r.exc # "" THEN RaiseFromRewriter(r.exc)
          ELSE /\ line' = Some(r.line)
               /\ pc' = "optionality_marker"
               /\ UNCHANGED error
    /\ UNCHANGED <<script, files, assets, main_markdown_file_text, rglob,
                   paths_and_titles_mapping, combined_book_markdown_lines, state,
                   main_lines, text, markdown_lines, pushback, tstate, out, included,
                   combined_file, option_sets, stdout, exit_status>>

RewriteOptionalityMarker ==
    /\ pc = "optionality_marker"
    /\ line' = Some(rewrite_docc_markdown_line_for_pandoc_optionality_marker(line[1]))
    /\ pc' = "image_reference"
    /\ UNCHANGED <<script, files, assets, main_markdown_file_text, rglob,
                   paths_and_titles_mapping, combined_book_markdown_lines, state,
                   main_lines, text, markdown_lines, pushback, tstate, out, included,
                   error, combined_file, option_sets, stdout, exit_status>>

RewriteImageReference ==
    /\ pc = "image_reference"
    /\ LET r == rewrite_docc_markdown_line_for_pandoc_image_reference(line[1], assets)
       IN IF r.exc # "" THEN RaiseFromRewriter(r.exc)
          ELSE /\ line' = Some(r.line)
               /\ pc' = "heading_level_shift"
               /\ UNCHANGED error
    /\ UNCHANGED <<script, files, assets, main_markdown_file_text, rglob,
                   paths_and_titles_mapping, combined_book_markdown_lines, state,
                   main_lines, text, markdown_lines, pushback, tstate, out, included,
                   combined_file, option_sets, stdout, exit_status>>

RewriteHeadingLevelShift ==
    /\ pc = "heading_level_shift"
    /\ line' = Some(rewrite_docc_markdown_line_for_pandoc_heading_level_shift(line[1]))
    /\ pc' = "rewritten"
    /\ UNCHANGED <<script, files, assets, main_markdown_file_text, rglob,
                   paths_and_titles_mapping, combined_book_markdown_lines, state,
                   main_lines, text, markdown_lines, pushback, tstate, out, included,
                   error, combined_file, option_sets, stdout, exit_status>>

NextLine ==
    \/ RewriteInternalReferences
    \/ RewriteOptionalityMarker
    \/ RewriteImageReference
    \/ RewriteHeadingLevelShift

SpecLine == InitLine /\ [][NextLine]_vars

-----------------------------------------------------------------------------
(* The Reference Index Builder on its own, as each of the three scripts has it *)

\* first lines and whole texts of .md files
TitleTexts ==
    { TextOf(<<<<"#"," ","F","o","o">>>>), <<"#"," ","F","o","o">>, TextOf(<<<<"#"," "," "," ","F","o","o"," ","B","a","r"," "," ">>, <<"#"," ","S","e","c","o","n","d">>>>),  \* "# Foo" "# Foo" "#   Foo Bar  " "# Second"
      TextOf(<<<<"i","n","t","r","o">>, <<"#","#"," ","S","u","b">>, <<"#"," ","L","a","t","e","\t">>>>), TextOf(<<<<"#","#"," ","S","u","b">>, <<"#","N","o","S","p","a","c","e">>>>),  \* "intro" "## Sub" "# Late\t" "## Sub" "#NoSpace"
      TextOf(<<<<"#"," ">>>>), <<>> }  \* "# "

InitIndex ==
    /\ script \in Scripts
    /\ \E ft \in TitleTexts, bt \in TitleTexts, dup \in BOOLEAN :
          files = << [path |-> RootPath, text |-> TitledRootText],
                     [path |-> FooPath, text |-> ft],
                     [path |-> BarPath, text |-> bt] >>
                  \o (IF dup THEN << [path |-> OtherFooPath, text |-> TitledBarText] >>
                      ELSE <<>>)
    /\ rglob = [i \in DOMAIN files |-> files[i].path]
    /\ main_markdown_file_text = <<>>
    /\ assets = Assets
    /\ pc = "index"
    /\ paths_and_titles_mapping = <<>>
    /\ combined_book_markdown_lines = <<>>
    /\ state = "WAITING_FOR_FIRST_HEADING"
    /\ main_lines = <<>>
    /\ text = <<>>
    /\ markdown_lines = <<>>
    /\ pushback = None
    /\ tstate = "START"
    /\ out = <<>>
    /\ line = None
    /\ included = <<>>
    /\ error = ""
    /\ combined_file = None
    /\ option_sets = <<>>
    /\ stdout = <<>>
    /\ exit_status = None

NextIndex == IndexFile

SpecIndex == InitIndex /\ [][NextIndex]_vars

-----------------------------------------------------------------------------
(* Properties of the Document Assembler *)

\* the lines the for loop of preprocess_main_file_markdown visits
MainLines == SplitLines(main_markdown_file_text)
\* position in MainLines of the first top-level heading, 0 when there is none
FirstHeading ==
    LET ml == MainLines
        hs == {i \in DOMAIN ml : StartsWith(ml[i], <<"#"," ">>)}  \* "# "
    IN IF hs = {} THEN 0 ELSE CHOOSE i \in hs : \A j \in hs : i <= j
\* the identifiers that the root texts name
ReferencedStems == { <<"F","o","o">>, <<"B","a","r">>, <<"B","a","z">> }  \* "Foo" "Bar" "Baz"
\* l is an inclusion directive for the identifier s: a hyphen, any whitespace, the
\* identifier in a backquoted <doc:...> marker, then anything
IsDirectiveFor(l, s) ==
    \E k \in 0..Len(l) :
        /\ StartsWith(l, <<"-">>)  \* "-"
        /\ \A j \in 2..(1 + k) : j <= Len(l) /\ IsSpace(l[j])
        /\ At(l, 2 + k, <<Backtick,"<","d","o","c",":">> \o s \o <<">",Backtick>>)  \* "`<doc:" ">`"
IsDirective(l) == \E s \in ReferencedStems : IsDirectiveFor(l, s)
\* positions in MainLines of the inclusion directives after the first heading
DirectivePositions ==
    LET ml == MainLines
        fh == FirstHeading
    IN {i \in DOMAIN ml : fh # 0 /\ i > fh /\ IsDirective(ml[i])}
\* the identifiers of those directives, in the order of the root text
Directives ==
    LET ml == MainLines
        dp == DirectivePositions
        ds == SelectSeq([i \in DOMAIN ml |-> i], LAMBDA i : i \in dp)
    IN [j \in DOMAIN ds |-> CHOOSE s \in ReferencedStems : IsDirectiveFor(ml[ds[j]], s)]
\* the stems of the files of the corpus
CorpusStems == {Stem(files[i].path) : i \in DOMAIN files}

\* C1: once the combined document is written (every referenced identifier was in
\* the index), its chapter blocks are those of the inclusion directives after the
\* first top-level heading of the root text, one block per directive and in the
\* directives' order; each block opens with one page-break marker line, ends with
\* one empty line and lies after the block before it; the file written is the
\* combined document joined by line feeds
C1_DirectiveOrder ==
    combined_file # None =>
        /\ [i \in DOMAIN included |-> included[i].stem] = Directives
        /\ \A i \in DOMAIN included :
              /\ 1 <= included[i].first
              /\ included[i].first < included[i].last
              /\ included[i].last <= Len(combined_book_markdown_lines)
              /\ combined_book_markdown_lines[included[i].first] = NewPage
              /\ \A j \in (included[i].first + 1)..included[i].last :
                    combined_book_markdown_lines[j] # NewPage
              /\ combined_book_markdown_lines[included[i].last] = <<>>
              /\ i > 1 => included[i - 1].last < included[i].first
              /\ \A j \in DOMAIN included :
                    included[j].stem = included[i].stem =>
                        SubSeq(combined_book_markdown_lines, included[j].first, included[j].last)
                        = SubSeq(combined_book_markdown_lines, included[i].first, included[i].last)
        /\ combined_file = Some(Join(combined_book_markdown_lines, <<"\n">>))

\* C1 witness: a root text with the directives Foo, Bar, Foo was assembled and written
C1_Witness ==
    /\ combined_file # None
    /\ [i \in DOMAIN included |-> included[i].stem] = << <<"F","o","o">>, <<"B","a","r">>, <<"F","o","o">> >>  \* "Foo" "Bar" "Foo"
    /\ Directives = << <<"F","o","o">>, <<"B","a","r">>, <<"F","o","o">> >>  \* "Foo" "Bar" "Foo"

\* position in MainLines of the first inclusion directive after the first heading
\* whose identifier names no file of the corpus, 0 when there is none
FirstUnresolved ==
    LET ml == MainLines
        cs == CorpusStems
        us == {i \in DirectivePositions :
                   \A s \in ReferencedStems : IsDirectiveFor(ml[i], s) => s \notin cs}
    IN IF us = {} THEN 0 ELSE CHOOSE i \in us : \A j \in us : i <= j
\* number of lines of the root text the for loop has visited
Visited == Len(MainLines) - Len(main_lines)

\* C4: when the root text has, after its first top-level heading, an inclusion
\* directive whose identifier is not in the index, the loop never gets past the
\* first such directive: visiting it raises KeyError and ends the run with a
\* nonzero status, nothing is written to swiftbook-combined.md, no renderer call is
\* set up or made and nothing is printed
C4_UnresolvedDirectiveFails ==
    LET fu == FirstUnresolved
    IN fu # 0 =>
        /\ combined_file = None
        /\ option_sets = <<>>
        /\ stdout = <<>>
        /\ exit_status # Some(0)
        /\ pc \notin {"render"}
        /\ pc \in {"assemble", "transpile"} => Visited < fu
        /\ (pc = "exit" /\ combined_book_markdown_lines # <<>>) =>
              /\ error = "KeyError"
              /\ exit_status = Some(1)
              /\ Visited = fu
              /\ Len(included) = Cardinality({i \in DirectivePositions : i < fu})

\* C4 witness: the run failed at the directive for Baz after a chapter was included
C4_Witness ==
    /\ FirstUnresolved # 0
    /\ pc = "exit"
    /\ error = "KeyError"
    /\ included # <<>>
    /\ IsDirectiveFor(MainLines[Visited], <<"B","a","z">>)  \* "Baz"

-----------------------------------------------------------------------------
(* Properties of the Chapter Transpiler *)

\* the lines of the chapter as the transpiler is given them
RawLines == SplitLines(text)
\* a line after the Line Rewriter
Rewritten(l) == rewrite_docc_markdown_line_for_pandoc(l, paths_and_titles_mapping, assets).line
\* the lines of the chapter after the Line Rewriter
In == LET raw == RawLines IN [i \in DOMAIN raw |-> Rewritten(raw[i])]
\* the transpiler's loop has ended
TranspilerDone == pc = "transpile" /\ ~TranspilerRunning /\ error = ""
\* l has the form "- term LABEL:" with a LABEL of at least one character
IsTermLine(l) == StartsWith(l, <<"-"," ","t","e","r","m"," ">>) /\ Len(l) >= 9 /\ l[Len(l)] = ":"  \* "- term "
LabelOf(l) == SubSeq(l, 8, Len(l) - 1)
\* t is a term line read in state normal, followed by a non-empty first body
\* line, body lines up to e - 1 and the line e that ends the block
DefinitionBlock(ls, t, e) ==
    /\ t + 1 < e
    /\ \A j \in 1..(t - 1) : ~StartsWith(ls[j], <<"-"," ","t","e","r","m"," ">>)  \* "- term "
    /\ IsTermLine(ls[t])
    /\ ls[t + 1] # <<>>
    /\ \A j \in (t + 2)..(e - 1) : ls[j] = <<>> \/ IsSpace(ls[j][1])
    /\ ls[e] # <<>>
    /\ ~IsSpace(ls[e][1])

\* C2: when the transpiler has ended, every definition block of its input (a term
\* line read in state normal, a non-empty first body line B, body lines, an ending
\* line N) has been emitted as: the label, an empty line, ":    " and B without
\* leading whitespace, per body line an empty line or four spaces and the line
\* without leading whitespace, then N as state normal emits it; the lines are
\* the input lines after the Line Rewriter
C2_DefinitionList ==
    TranspilerDone =>
        LET ls == In
        IN \A t \in DOMAIN ls, e \in DOMAIN ls :
            DefinitionBlock(ls, t, e) =>
                /\ Len(out) >= e + 1
                /\ \A j \in 1..(t - 1) : out[j] = ls[j]
                /\ out[t] = LabelOf(ls[t])
                /\ out[t + 1] = <<>>
                /\ out[t + 2] = <<":"," "," "," "," ">> \o Lstrip(ls[t + 1])  \* ":    "
                /\ \A j \in (t + 2)..(e - 1) :
                      out[j + 1] = IF ls[j] = <<>> THEN <<>> ELSE <<" "," "," "," ">> \o Lstrip(ls[j])  \* "    "
                /\ IsTermLine(ls[e]) => out[e + 1] = LabelOf(ls[e])
                /\ ~StartsWith(ls[e], <<"-"," ","t","e","r","m"," ">>) => out[e + 1] = ls[e]  \* "- term "

\* C2 witness: the example of the specification was transpiled
C2_Witness ==
    /\ TranspilerDone
    /\ RawLines = << <<"-"," ","t","e","r","m"," ","F","o","o",":">>, <<"B","o","d","y"," ","l","i","n","e"," ","o","n","e">>, <<" "," ","i","n","d","e","n","t","e","d"," ","l","i","n","e">>, <<>>,  \* "- term Foo:" "Body line one" "  indented line"
                     <<"N","e","x","t"," ","p","a","r","a","g","r","a","p","h">> >>  \* "Next paragraph"
    /\ out = << <<"F","o","o">>, <<>>, <<":"," "," "," "," ","B","o","d","y"," ","l","i","n","e"," ","o","n","e">>, <<" "," "," "," ","i","n","d","e","n","t","e","d"," ","l","i","n","e">>, <<>>,  \* "Foo" ":    Body line one" "    indented line"
                <<"N","e","x","t"," ","p","a","r","a","g","r","a","p","h">> >>  \* "Next paragraph"

\* C3: the line the transpiler's loop works on is the input line read last after
\* one pass through the Line Rewriter, whether it was read from the input or
\* taken from the push-back slot; so is a non-empty line held in the push-back
\* slot (an empty one is never taken from the slot)
C3_RewrittenOnce ==
    (pc = "transpile" /\ error = "" /\ line # None) =>
        LET raw == RawLines
            k == Len(raw) - Len(markdown_lines)
        IN /\ k >= 1
           /\ line[1] = Rewritten(raw[k])
           /\ Truthy(pushback) => pushback[1] = Rewritten(raw[k])

\* C3 witness: a heading ended a definition body, was pushed back and was then
\* emitted in state normal with one heading marker added
C3_Witness ==
    /\ TranspilerDone
    /\ RawLines = << <<"-"," ","t","e","r","m"," ","F","o","o",":">>, <<"B","o","d","y"," ","l","i","n","e"," ","o","n","e">>, <<"#"," ","H","e","a","d","i","n","g">> >>  \* "- term Foo:" "Body line one" "# Heading"
    /\ line = Some(<<"#","#"," ","H","e","a","d","i","n","g">>)  \* "## Heading"
    /\ out = << <<"F","o","o">>, <<>>, <<":"," "," "," "," ","B","o","d","y"," ","l","i","n","e"," ","o","n","e">>, <<"#","#"," ","H","e","a","d","i","n","g">> >>  \* "Foo" ":    Body line one" "## Heading"

-----------------------------------------------------------------------------
(* Properties of the Line Rewriter *)

\* a character of a cross-reference target
IsTargetChar(c) == IsWord(c) \/ c = "#" \/ c = "-"
\* l has at position i a marker <doc:TARGET> with a TARGET of n characters
IsMarkerAt(l, i, n) ==
    /\ n >= 1
    /\ At(l, i, <<"<","d","o","c",":">>)  \* "<doc:"
    /\ i + 5 + n <= Len(l)
    /\ \A k \in (i + 5)..(i + 4 + n) : IsTargetChar(l[k])
    /\ l[i + 5 + n] = ">"
MarkerStarts(l) == {i \in DOMAIN l : \E n \in 1..Len(l) : IsMarkerAt(l, i, n)}
TargetAt(l, i, n) == SubSeq(l, i + 5, i + 4 + n)
\* the document identifier of a target: the part before any "#"
DocIdOf(t) ==
    IF "#" \in Range(t)
    THEN SubSeq(t, 1, (CHOOSE k \in DOMAIN t : t[k] = "#" /\ \A j \in 1..(k - 1) : t[j] # "#") - 1)
    ELSE t
\* the fragment of a target with one "#": the part after it
FragmentOf(t) == SubSeq(t, (CHOOSE k \in DOMAIN t : t[k] = "#") + 1, Len(t))
\* the label and the anchor of the link for the target t
LabelFor(t, mapping) ==
    IF "#" \in Range(t)
    THEN [k \in DOMAIN FragmentOf(t) |->
             IF FragmentOf(t)[k] = "-" THEN " " ELSE FragmentOf(t)[k]]
    ELSE mapping[t].title[1]
AnchorFor(label) ==
    [k \in DOMAIN label |-> IF label[k] = " " THEN "-" ELSE LowerChar(label[k])]
LinkFor(t, mapping) ==
    <<"[">> \o LabelFor(t, mapping) \o <<"]","(","#">> \o AnchorFor(LabelFor(t, mapping)) \o <<")">>  \* "[" "](#" ")"
EndsWith(s, p) == Len(s) >= Len(p) /\ SubSeq(s, Len(s) - Len(p) + 1, Len(s)) = p

\* C5 (as claimed): rewriting a line with a cross-reference whose document
\* identifier, the part of the target before any "#", is not a key of the index
\* fails with KeyError, whether the target has a fragment or not
C5_UnresolvedCrossReferenceFails ==
    [][ ( /\ pc = "internal_references"
          /\ \E i \in DOMAIN line[1], n \in 1..Len(line[1]) :
                /\ IsMarkerAt(line[1], i, n)
                /\ DocIdOf(TargetAt(line[1], i, n)) \notin DOMAIN paths_and_titles_mapping )
        => (pc' = "raised" /\ error' = "KeyError") ]_vars

\* C7: when the rewrite of the cross-references of a line succeeds, the text
\* before the first marker and after the last marker is kept and the marker
\* <doc:TARGET> is replaced by [label](#anchor), where label is the fragment with
\* hyphens replaced by spaces if TARGET has a "#" and the indexed title of TARGET
\* otherwise, and anchor is label lowercased with spaces replaced by hyphens (for
\* a fragment: the lowercased fragment); a line without marker is unchanged
C7_CrossReferenceResolution ==
    [][ (pc = "internal_references" /\ pc' = "optionality_marker") =>
          /\ MarkerStarts(line[1]) = {} => line' = line
          /\ \A i \in MarkerStarts(line[1]), n \in 1..Len(line[1]) :
                IsMarkerAt(line[1], i, n) =>
                    LET t == TargetAt(line[1], i, n)
                    IN /\ (\A j \in MarkerStarts(line[1]) : i <= j) =>
                              StartsWith(line'[1],
                                  SubSeq(line[1], 1, i - 1) \o LinkFor(t, paths_and_titles_mapping))
                       /\ (\A j \in MarkerStarts(line[1]) : j <= i) =>
                              EndsWith(line'[1],
                                  LinkFor(t, paths_and_titles_mapping) \o From(line[1], i + n + 6))
                       /\ "#" \in Range(t) =>
                              AnchorFor(LabelFor(t, paths_and_titles_mapping))
                              = [k \in DOMAIN FragmentOf(t) |-> LowerChar(FragmentOf(t)[k])] ]_vars

\* C7 witness: <doc:Bar#Some-Section> was rewritten, and so were two references
\* that take their labels from the index
C7_Witness ==
    /\ pc = "optionality_marker"
    /\ \/ line = Some(<<"[","S","o","m","e"," ","S","e","c","t","i","o","n","]","(","#","s","o","m","e","-","s","e","c","t","i","o","n",")">>)  \* "[Some Section](#some-section)"
       \/ line = Some(<<"S","e","e"," ","[","B","a","r"," ","C","h","a","p","t","e","r","]","(","#","b","a","r","-","c","h","a","p","t","e","r",")"," ","a","n","d"," ","[","F","o","o","]","(","#","f","o","o",")",".">>)  \* "See [Bar Chapter](#bar-chapter) and [Foo](#foo)."

\* the anchors of the links of a line: what stands between "(#" and the next ")"
AnchorsOf(l) ==
    LET starts == SelectSeq([i \in DOMAIN l |-> i], LAMBDA i : At(l, i, <<"(","#">>))  \* "(#"
    IN [k \in DOMAIN starts |->
           SubSeq(l, starts[k] + 2,
                  (CHOOSE j \in (starts[k] + 2)..Len(l) :
                       l[j] = ")" /\ \A m \in (starts[k] + 2)..(j - 1) : l[m] # ")") - 1)]
\* a title with its letters lowercased and its spaces replaced by hyphens
Folded(title) == [k \in DOMAIN title |-> IF title[k] = " " THEN "-" ELSE LowerChar(title[k])]
\* the line <doc:Foo> <doc:Bar> was rewritten, with both documents titled
BothRewritten ==
    /\ pc = "internal_references"
    /\ line = Some(<<"<","d","o","c",":","F","o","o",">"," ","<","d","o","c",":","B","a","r",">">>)  \* "<doc:Foo> <doc:Bar>"
    /\ pc' = "optionality_marker"

\* C8 (as claimed): two indexed documents with distinct titles get distinct anchors
C8_InjectiveOnTitles ==
    [][ (BothRewritten /\ paths_and_titles_mapping[<<"F","o","o">>].title  \* "Foo"
                          # paths_and_titles_mapping[<<"B","a","r">>].title)  \* "Bar"
        => (Len(AnchorsOf(line'[1])) = 2 /\ AnchorsOf(line'[1])[1] # AnchorsOf(line'[1])[2]) ]_vars

\* C8 (amended): two indexed documents whose titles still differ after
\* lowercasing and replacing spaces by hyphens get distinct anchors
C8_InjectiveOnFoldedTitles ==
    [][ (BothRewritten /\ Folded(paths_and_titles_mapping[<<"F","o","o">>].title[1])  \* "Foo"
                          # Folded(paths_and_titles_mapping[<<"B","a","r">>].title[1]))  \* "Bar"
        => (Len(AnchorsOf(line'[1])) = 2 /\ AnchorsOf(line'[1])[1] # AnchorsOf(line'[1])[2]) ]_vars

\* C8 witness: the references to two documents with the titles Foo! and Foo were
\* rewritten to links with two anchors
C8_Witness ==
    /\ pc = "optionality_marker"
    /\ line = Some(<<"[","F","o","o","!","]","(","#","f","o","o","!",")"," ","[","F","o","o","]","(","#","f","o","o",")">>)  \* "[Foo!](#foo!) [Foo](#foo)"
    /\ paths_and_titles_mapping[<<"F","o","o">>].title = Some(<<"F","o","o","!">>)  \* "Foo" "Foo!"
    /\ paths_and_titles_mapping[<<"B","a","r">>].title = Some(<<"F","o","o">>)  \* "Bar" "Foo"

\* l starts with one or more "#" followed by a space
IsHeadingLine(l) ==
    \E k \in 1..Len(l) : k < Len(l) /\ l[k + 1] = " " /\ \A j \in 1..k : l[j] = "#"

\* C9 (as claimed): the heading-level shift prepends one "#" to every line that
\* starts with one or more "#" followed by a space, whatever follows the space,
\* and returns every other line unchanged
C9_HeadingLevelShift ==
    [][ pc = "heading_level_shift" =>
          line'[1] = IF IsHeadingLine(line[1]) THEN <<"#">> \o line[1] ELSE line[1] ]_vars  \* "#"

-----------------------------------------------------------------------------
(* Properties of the Reference Index Builder and of the titles *)

\* r is s without its leading and trailing whitespace
IsTrimOf(r, s) ==
    \E a \in 1..(Len(s) + 1), b \in 0..Len(s) :
        /\ a <= b + 1
        /\ r = SubSeq(s, a, b)
        /\ \A k \in 1..(a - 1) : IsSpace(s[k])
        /\ \A k \in (b + 1)..Len(s) : IsSpace(s[k])
        /\ r # <<>> => ~IsSpace(r[1]) /\ ~IsSpace(r[Len(r)])
\* the lines of the text t that start with "# "
HeadingLines(t) == SelectSeq(FileLines(t), LAMBDA l : StartsWith(l, <<"#"," ">>))  \* "# "

\* C6 (as claimed): once the index is built over files with unique stems, it maps
\* the stem of every file to the file's path and to the text of the file's first
\* line that starts with "# ", without the marker and trimmed of leading and
\* trailing whitespace (the line terminator included), or to None when the file
\* has no such line
C6_IndexTitles ==
    ( /\ pc = "index"
      /\ rglob = <<>>
      /\ \A i \in DOMAIN files, j \in DOMAIN files :
            Stem(files[i].path) = Stem(files[j].path) => i = j )
    => /\ DOMAIN paths_and_titles_mapping = {Stem(files[i].path) : i \in DOMAIN files}
       /\ \A i \in DOMAIN files :
             LET entry == paths_and_titles_mapping[Stem(files[i].path)]
                 hs == HeadingLines(files[i].text)
             IN /\ entry.path = files[i].path
                /\ hs = <<>> => entry.title = None
                /\ hs # <<>> => /\ entry.title # None
                                /\ IsTrimOf(entry.title[1], From(hs[1], 3))

\* the root document has no line that starts with "# "
UntitledRoot == files # <<>> /\ HeadingLines(FileText(RootPath)) = <<>>

\* C10 (as claimed): a run over a root document without top-level heading fails
\* when markdown_header_lines uses the absent title: it does not get past the
\* header, writes nothing, and no line of the combined document carries a
\* placeholder for the title
C10_MissingTitleFails ==
    /\ UntitledRoot => /\ pc \in {"combine", "index", "exit"}
                       /\ combined_book_markdown_lines = <<>>
                       /\ combined_file = None
                       /\ exit_status # Some(0)
    /\ \A i \in DOMAIN combined_book_markdown_lines :
          combined_book_markdown_lines[i] # <<"t","i","t","l","e",":"," ","N","o","n","e">>  \* "title: None"

-----------------------------------------------------------------------------
(* Properties of the renderer invocations *)

\* the messages generate_output prints
FailureMessage(command) == [msg |-> "pandoc command execution failure:", arg |-> command]
OutputMessage(path) == [msg |-> "Output written to", arg |-> path]
\* a renderer invocation was reported as failed
SomeRendererFailed ==
    \E k \in DOMAIN stdout : stdout[k].msg = "pandoc command execution failure:"

\* C11 (as claimed): when the renderer exited nonzero for at least one output
\* format, the exit status of the run is nonzero
C11_RendererFailureFailsRun ==
    (pc = "exit" /\ SomeRendererFailed) => exit_status # Some(0)

\* the command lines of the renderer invocations, as a shell takes them
EpubCommand ==
    <<"/","u","s","r","/","l","o","c","a","l","/","b","i","n","/","p","a","n","d","o","c"," ","-","-","f","r","o","m"," ","m","a","r","k","d","o","w","n"," ","s","w","i","f","t","b","o","o","k","-","c","o","m","b","i","n","e","d",".","m","d">>  \* "/usr/local/bin/pandoc --from markdown swiftbook-combined.md"
    \o <<" ","-","-","r","e","s","o","u","r","c","e","-","p","a","t","h"," ","T","S","P","L",".","d","o","c","c","/","A","s","s","e","t","s"," ","-","-","h","i","g","h","l","i","g","h","t","-","s","t","y","l","e"," ","t","s","p","l","-","c","o","d","e","-","h","i","g","h","l","i","g","h","t",".","t","h","e","m","e">>  \* " --resource-path TSPL.docc/Assets --highlight-style tspl-code-highlight.theme"
    \o <<" ","-","-","s","t","a","n","d","a","l","o","n","e"," ","-","-","l","u","a","-","f","i","l","t","e","r"," ","r","e","w","r","i","t","e","-","r","e","t","i","n","a","-","i","m","a","g","e","-","r","e","f","e","r","e","n","c","e","s",".","l","u","a">>  \* " --standalone --lua-filter rewrite-retina-image-references.lua"
    \o <<" ","-","-","t","o"," ","e","p","u","b","3"," ","-","-","t","o","c"," ","-","-","s","p","l","i","t","-","l","e","v","e","l","=","2">>  \* " --to epub3 --toc --split-level=2"
    \o <<" ","-","-","e","p","u","b","-","e","m","b","e","d","-","f","o","n","t","=","/","L","i","b","r","a","r","y","/","F","o","n","t","s","/","S","F","-","P","r","o","-","T","e","x","t","-","R","e","g","u","l","a","r",".","o","t","f">>  \* " --epub-embed-font=/Library/Fonts/SF-Pro-Text-Regular.otf"
    \o <<" ","-","-","e","p","u","b","-","e","m","b","e","d","-","f","o","n","t","=","/","L","i","b","r","a","r","y","/","F","o","n","t","s","/","S","F","-","P","r","o","-","T","e","x","t","-","R","e","g","u","l","a","r","I","t","a","l","i","c",".","o","t","f">>  \* " --epub-embed-font=/Library/Fonts/SF-Pro-Text-RegularItalic.otf"
    \o <<" ","-","-","e","p","u","b","-","e","m","b","e","d","-","f","o","n","t","=","/","L","i","b","r","a","r","y","/","F","o","n","t","s","/","S","F","-","P","r","o","-","T","e","x","t","-","B","o","l","d",".","o","t","f">>  \* " --epub-embed-font=/Library/Fonts/SF-Pro-Text-Bold.otf"
    \o <<" ","-","-","e","p","u","b","-","e","m","b","e","d","-","f","o","n","t","=","/","L","i","b","r","a","r","y","/","F","o","n","t","s","/","S","F","-","P","r","o","-","T","e","x","t","-","B","o","l","d","I","t","a","l","i","c",".","o","t","f">>  \* " --epub-embed-font=/Library/Fonts/SF-Pro-Text-BoldItalic.otf"
    \o <<" ","-","-","e","p","u","b","-","e","m","b","e","d","-","f","o","n","t","=","/","L","i","b","r","a","r","y","/","F","o","n","t","s","/","S","F","-","M","o","n","o",".","t","t","c">>  \* " --epub-embed-font=/Library/Fonts/SF-Mono.ttc"
    \o <<" ","-","-","c","s","s"," ","t","s","p","l","-","e","p","u","b",".","c","s","s"," ","-","-","o","u","t","p","u","t"," ","T","h","e","-","S","w","i","f","t","-","P","r","o","g","r","a","m","m","i","n","g","-","L","a","n","g","u","a","g","e",".","e","p","u","b">>  \* " --css tspl-epub.css --output The-Swift-Programming-Language.epub"
PdfCommand ==
    <<"/","u","s","r","/","l","o","c","a","l","/","b","i","n","/","p","a","n","d","o","c"," ","-","-","f","r","o","m"," ","m","a","r","k","d","o","w","n"," ","s","w","i","f","t","b","o","o","k","-","c","o","m","b","i","n","e","d",".","m","d">>  \* "/usr/local/bin/pandoc --from markdown swiftbook-combined.md"
    \o <<" ","-","-","r","e","s","o","u","r","c","e","-","p","a","t","h"," ","T","S","P","L",".","d","o","c","c","/","A","s","s","e","t","s"," ","-","-","h","i","g","h","l","i","g","h","t","-","s","t","y","l","e"," ","t","s","p","l","-","c","o","d","e","-","h","i","g","h","l","i","g","h","t",".","t","h","e","m","e">>  \* " --resource-path TSPL.docc/Assets --highlight-style tspl-code-highlight.theme"
    \o <<" ","-","-","s","t","a","n","d","a","l","o","n","e"," ","-","-","l","u","a","-","f","i","l","t","e","r"," ","r","e","w","r","i","t","e","-","r","e","t","i","n","a","-","i","m","a","g","e","-","r","e","f","e","r","e","n","c","e","s",".","l","u","a">>  \* " --standalone --lua-filter rewrite-retina-image-references.lua"
    \o <<" ","-","-","t","o"," ","p","d","f"," ","-","-","p","d","f","-","e","n","g","i","n","e"," ","l","u","a","l","a","t","e","x"," ","-","-","v","a","r","i","a","b","l","e"," ","'","l","i","n","k","c","o","l","o","r","=","[","H","T","M","L","]","{","d","e","5","d","4","3","}","'">>  \* " --to pdf --pdf-engine lualatex --variable 'linkcolor=[HTML]{de5d43}'"
    \o <<" ","-","-","t","e","m","p","l","a","t","e"," ","t","s","p","l","-","p","a","n","d","o","c","-","t","e","m","p","l","a","t","e"," ","-","-","o","u","t","p","u","t"," ","T","h","e","-","S","w","i","f","t","-","P","r","o","g","r","a","m","m","i","n","g","-","L","a","n","g","u","a","g","e",".","p","d","f">>  \* " --template tspl-pandoc-template --output The-Swift-Programming-Language.pdf"
LatexCommand ==
    <<"/","u","s","r","/","l","o","c","a","l","/","b","i","n","/","p","a","n","d","o","c"," ","-","-","f","r","o","m"," ","m","a","r","k","d","o","w","n"," ","s","w","i","f","t","b","o","o","k","-","c","o","m","b","i","n","e","d",".","m","d">>  \* "/usr/local/bin/pandoc --from markdown swiftbook-combined.md"
    \o <<" ","-","-","r","e","s","o","u","r","c","e","-","p","a","t","h"," ","T","S","P","L",".","d","o","c","c","/","A","s","s","e","t","s"," ","-","-","h","i","g","h","l","i","g","h","t","-","s","t","y","l","e"," ","t","s","p","l","-","c","o","d","e","-","h","i","g","h","l","i","g","h","t",".","t","h","e","m","e">>  \* " --resource-path TSPL.docc/Assets --highlight-style tspl-code-highlight.theme"
    \o <<" ","-","-","s","t","a","n","d","a","l","o","n","e"," ","-","-","l","u","a","-","f","i","l","t","e","r"," ","r","e","w","r","i","t","e","-","r","e","t","i","n","a","-","i","m","a","g","e","-","r","e","f","e","r","e","n","c","e","s",".","l","u","a">>  \* " --standalone --lua-filter rewrite-retina-image-references.lua"
    \o <<" ","-","-","t","o"," ","l","a","t","e","x"," ","-","-","o","u","t","p","u","t"," ","T","h","e","-","S","w","i","f","t","-","P","r","o","g","r","a","m","m","i","n","g","-","L","a","n","g","u","a","g","e",".","t","e","x">>  \* " --to latex --output The-Swift-Programming-Language.tex"
\* the invocations of a run: EPUB then PDF, or the intermediate format alone
NormalPlan ==
    << [to |-> <<"e","p","u","b","3">>, command |-> EpubCommand,  \* "epub3"
        output |-> <<"T","h","e","-","S","w","i","f","t","-","P","r","o","g","r","a","m","m","i","n","g","-","L","a","n","g","u","a","g","e",".","e","p","u","b">>],  \* "The-Swift-Programming-Language.epub"
       [to |-> <<"p","d","f">>, command |-> PdfCommand,  \* "pdf"
        output |-> <<"T","h","e","-","S","w","i","f","t","-","P","r","o","g","r","a","m","m","i","n","g","-","L","a","n","g","u","a","g","e",".","p","d","f">>] >>  \* "The-Swift-Programming-Language.pdf"
DebugPlan ==
    << [to |-> <<"l","a","t","e","x">>, command |-> LatexCommand,  \* "latex"
        output |-> <<"T","h","e","-","S","w","i","f","t","-","P","r","o","g","r","a","m","m","i","n","g","-","L","a","n","g","u","a","g","e",".","t","e","x">>] >>  \* "The-Swift-Programming-Language.tex"
\* the option list names the output format
IsFor(options, to) ==
    \E i \in 1..(Len(options) - 1) : options[i] = <<"-","-","t","o">> /\ options[i + 1] = to  \* "--to"

\* C18: once the renderer loop is entered, the invocations made and those still
\* to make are together EPUB then PDF, or the intermediate format alone; every
\* invocation made has printed either the failure message with its exact command
\* line or its own output location; a failure does not end the run, which ends
\* without exception after every invocation was made
C18_RendererContinues ==
    (pc = "render" \/ (pc = "exit" /\ Len(stdout) > 1)) =>
        /\ stdout[1] = [msg |-> "Preprocessed Markdown content written to",
                        arg |-> <<"s","w","i","f","t","b","o","o","k","-","c","o","m","b","i","n","e","d",".","m","d">>]  \* "swiftbook-combined.md"
        /\ \E plan \in {NormalPlan, DebugPlan} :
              LET made == Len(stdout) - 1
              IN /\ made + Len(option_sets) = Len(plan)
                 /\ \A k \in 1..made :
                       \/ stdout[k + 1] = FailureMessage(plan[k].command)
                       \/ stdout[k + 1] = OutputMessage(plan[k].output)
                 /\ \A k \in DOMAIN option_sets : IsFor(option_sets[k], plan[made + k].to)
        /\ pc = "exit" => (option_sets = <<>> /\ error = "")

\* C18 witness: the EPUB invocation failed, the PDF invocation was made after it
\* and succeeded, and the run has ended
C18_Witness ==
    /\ pc = "exit"
    /\ Len(stdout) = 3
    /\ stdout[2] = FailureMessage(EpubCommand)
    /\ stdout[3] = OutputMessage(<<"T","h","e","-","S","w","i","f","t","-","P","r","o","g","r","a","m","m","i","n","g","-","L","a","n","g","u","a","g","e",".","p","d","f">>)  \* "The-Swift-Programming-Language.pdf"

-----------------------------------------------------------------------------
(* Properties of the image reference rewriting *)

\* l is ![caption](name) and nothing else, with "](" at position c: the caption
\* has no "]" and the name is one or more word characters or hyphens
IsImageLine(l, c) ==
    /\ StartsWith(l, <<"!","[">>)  \* "!["
    /\ c >= 3
    /\ At(l, c, <<"]","(">>)  \* "]("
    /\ \A k \in 3..(c - 1) : l[k] # "]"
    /\ Len(l) >= c + 3
    /\ l[Len(l)] = ")"
    /\ \A k \in (c + 2)..(Len(l) - 1) : IsWord(l[k]) \/ l[k] = "-"
CaptionOf(l, c) == SubSeq(l, 3, c - 1)
NameOf(l, c) == SubSeq(l, c + 2, Len(l) - 1)
\* the number a sequence of decimal digits denotes
RECURSIVE DecimalValue(_)
DecimalValue(ds) ==
    IF ds = <<>> THEN 0
    ELSE 10 * DecimalValue(SubSeq(ds, 1, Len(ds) - 1))
         + (CHOOSE v \in 0..9 : Digits[v + 1] = ds[Len(ds)])
\* ds is the decimal numeral of n
IsNumeral(ds, n) ==
    /\ ds # <<>>
    /\ \A k \in DOMAIN ds : ds[k] \in Range(Digits)
    /\ Len(ds) > 1 => ds[1] # "0"
    /\ DecimalValue(ds) = n
\* l is ![caption](name@2x.png){ width=P% } with the numeral P of p
IsScaledImage(l, caption, name, p) ==
    LET head == <<"!","[">> \o caption \o <<"]","(">> \o name \o <<"@","2","x",".","p","n","g",")","{"," ","w","i","d","t","h","=">>  \* "![" "](" "@2x.png){ width="
    IN /\ StartsWith(l, head)
       /\ EndsWith(l, <<"%"," ","}">>)  \* "% }"
       /\ Len(l) > Len(head) + 3
       /\ IsNumeral(SubSeq(l, Len(head) + 1, Len(l) - 3), p)

\* C12: a line ![caption](name) whose asset name@2x.png has the pixel width W is
\* rewritten to ![caption](name@2x.png){ width=P% }, where P is the integer with
\* P <= W / 2 / 7.6 < P + 1, that is 152 * P <= 10 * W < 152 * (P + 1)
C12_ImageScale ==
    [][ \A c \in DOMAIN line[1] :
          ( /\ pc = "image_reference"
            /\ IsImageLine(line[1], c)
            /\ NameOf(line[1], c) \in DOMAIN assets
            /\ assets[NameOf(line[1], c)] # None )
          => /\ pc' = "heading_level_shift"
             /\ \E p \in 0..assets[NameOf(line[1], c)][1] :
                   /\ 152 * p <= 10 * assets[NameOf(line[1], c)][1]
                   /\ 10 * assets[NameOf(line[1], c)][1] < 152 * (p + 1)
                   /\ IsScaledImage(line'[1], CaptionOf(line[1], c), NameOf(line[1], c), p) ]_vars

\* C12 witness: the reference to the image of width 1520 was rewritten with 100%
C12_Witness ==
    /\ pc = "heading_level_shift"
    /\ assets[<<"p","i","c">>] = Some(1520)  \* "pic"
    /\ line = Some(<<"!","[","C","a","p","]","(","p","i","c","@","2","x",".","p","n","g",")","{"," ","w","i","d","t","h","=","1","0","0","%"," ","}">>)  \* "![Cap](pic@2x.png){ width=100% }"

-----------------------------------------------------------------------------
(* Properties of the push-back slot and of the length of the output *)

\* C13 (as claimed): the line handled in state list-header-pending, empty or
\* not, is the line the next step handles in state definition-first-line: that
\* step reads no new input line and emits the line with the prefix ":    "
C13_PendingLineIsReprocessed ==
    [][ (pc = "transpile" /\ tstate = "READING_DEFINITION_LIST_DEFINITION_FIRST_LINE")
        => /\ line' = line
           /\ markdown_lines' = markdown_lines
           /\ out' = Append(out, <<":"," "," "," "," ">> \o Lstrip(line[1])) ]_vars  \* ":    "

\* C14 (as claimed, the state in which the loop stops): when the transpiler's
\* loop has stopped, every input line has been read and the push-back slot
\* holds no line
C14_StopsWithEmptySlot ==
    (pc = "transpile" /\ ~TranspilerRunning /\ error = "")
        => (markdown_lines = <<>> /\ pushback = None)

\* re.match of "- term (.+):" succeeds on l
IsTermMatch(l) == StartsWith(l, <<"-"," ","t","e","r","m"," ">>) /\ \E k \in 9..Len(l) : l[k] = ":"  \* "- term "
\* l ends a definition body: it is not empty and does not begin with whitespace
EndsBody(l) == l # <<>> /\ ~IsSpace(l[1])
\* the state in which the input line i of ls is first handled
RECURSIVE ModeAt(_, _)
ModeAt(ls, i) ==
    IF i = 1 THEN "normal"
    ELSE LET before == ModeAt(ls, i - 1)
             l == ls[i - 1]
         IN CASE before = "normal" -> IF IsTermMatch(l) THEN "pending" ELSE "normal"
              [] before = "pending" -> IF l = <<>> THEN "first" ELSE "body"
              [] before = "first" -> "body"
              [] before = "body" ->
                    IF ~EndsBody(l) THEN "body"
                    ELSE IF IsTermMatch(l) THEN "pending" ELSE "normal"
\* the term lines recognised in state normal that a non-empty line follows
FollowedTerms(ls) ==
    {i \in 1..(Len(ls) - 1) :
        /\ IsTermMatch(ls[i])
        /\ ls[i + 1] # <<>>
        /\ \/ ModeAt(ls, i) = "normal"
           \/ ModeAt(ls, i) = "body" /\ EndsBody(ls[i])}

\* C20: every step of the transpiler emits exactly one line, except the
\* block-ending step in definition-body, which emits none and pushes its line
\* back; a pushed-back line that is not empty is the line the next step handles;
\* when the loop stops after N input lines, the output has N + K lines, K being
\* the number of term lines recognised in state normal that are directly
\* followed by a non-empty input line
C20_OutputLength ==
    [][ (pc = "transpile" /\ pc' = "transpile") =>
          /\ IF tstate = "READING_DEFINITION_LIST_DEFINITION" /\ EndsBody(line'[1])
             THEN out' = out /\ pushback' = line' /\ tstate' = "START"
             ELSE Len(out') = Len(out) + 1 /\ SubSeq(out', 1, Len(out)) = out
          /\ tstate = "START_DEFINITION_LIST" => pushback' = line'
          /\ Truthy(pushback) => (line' = pushback /\ markdown_lines' = markdown_lines)
          /\ (markdown_lines' = <<>> /\ ~Truthy(pushback')) =>
                LET ls == In
                IN Len(out') = Len(ls) + Cardinality(FollowedTerms(ls)) ]_vars

\* C20 witness: five input lines with two term lines, the first followed by a
\* non-empty line and the second the last line, gave six output lines
C20_Witness ==
    /\ TranspilerDone
    /\ RawLines = << <<"-"," ","t","e","r","m"," ","F","o","o",":">>, <<" "," ","i","n","d","e","n","t","e","d"," ","l","i","n","e">>, <<>>, <<"N","e","x","t"," ","p","a","r","a","g","r","a","p","h">>,  \* "- term Foo:" "  indented line" "Next paragraph"
                     <<"-"," ","t","e","r","m"," ","F","o","o",":">> >>  \* "- term Foo:"
    /\ out = << <<"F","o","o">>, <<>>, <<":"," "," "," "," ","i","n","d","e","n","t","e","d"," ","l","i","n","e">>, <<>>, <<"N","e","x","t"," ","p","a","r","a","g","r","a","p","h">>, <<"F","o","o">> >>  \* "Foo" ":    indented line" "Next paragraph" "Foo"

-----------------------------------------------------------------------------
(* Properties of the two states of the Document Assembler *)

\* the metadata header of a document: its lines up to the second "---" line
HeaderLength(lines) ==
    CHOOSE n \in 2..Len(lines) :
        /\ lines[1] = <<"-","-","-">>  \* "---"
        /\ lines[n] = <<"-","-","-">>  \* "---"
        /\ \A k \in 2..(n - 1) : lines[k] # <<"-","-","-">>  \* "---"
\* what holds of the combined document in the two states of the assembler
WaitingAndProcessing ==
    (pc \in {"assemble", "transpile", "render", "exit"} /\ combined_book_markdown_lines # <<>>) =>
        LET fh == FirstHeading
            hl == HeaderLength(combined_book_markdown_lines)
        IN /\ state = "WAITING_FOR_FIRST_HEADING" =>
                 /\ fh = 0 \/ Visited < fh
                 /\ Len(combined_book_markdown_lines) = hl
                 /\ included = <<>>
                 /\ error = ""
                 /\ pc # "transpile"
           /\ state = "PROCESSING_DOCUMENT_INCLUDES" =>
                 /\ fh # 0
                 /\ Visited >= fh
                 /\ Len(combined_book_markdown_lines) > hl
                 /\ combined_book_markdown_lines[hl + 1] = MainLines[fh]
           /\ (fh = 0 /\ pc \in {"render", "exit"}) =>
                 /\ combined_file # None
                 /\ combined_file[1] = Join(SubSeq(combined_book_markdown_lines, 1, hl), <<"\n">>)

\* C15: while the assembler waits for the first heading, the combined document
\* is the metadata header alone, whatever the root lines before the first line
\* starting with "# " are (no chapter is included, nothing is looked up, nothing
\* fails); the first heading line follows the header directly, without page-break
\* marker; the state then is processing-includes and stays so; a root text
\* without top-level heading gives the header alone
C15_WaitingForFirstHeading ==
    /\ []WaitingAndProcessing
    /\ [][ state = "PROCESSING_DOCUMENT_INCLUDES" => state' = "PROCESSING_DOCUMENT_INCLUDES" ]_vars

\* C15 witness: a directive for a document that is not indexed and a paragraph
\* stood before the first heading, the run ended without error and the
\* combined document is the header and the heading
C15_Witness ==
    /\ pc = "exit"
    /\ error = ""
    /\ MainLines = << <<"-"," ",Backtick,"<","d","o","c",":","B","a","z",">",Backtick>>, <<"i","n","t","r","o">>, <<"#"," ","P","a","r","t">> >>  \* "- `<doc:Baz>`" "intro" "# Part"
    /\ Len(combined_book_markdown_lines) = HeaderLength(combined_book_markdown_lines) + 1
    /\ combined_book_markdown_lines[Len(combined_book_markdown_lines)] = <<"#"," ","P","a","r","t">>  \* "# Part"

\* C16: in state processing-includes a root line that is no inclusion directive
\* is appended to the combined document as it is, once, after one page-break
\* marker line if and only if it starts with "# "; an inclusion directive is not
\* appended: when its chapter is transpiled, the page-break marker, the
\* transpiled lines and one empty line are appended in its place
C16_ProcessingIncludes ==
    [][ /\ ( /\ pc = "assemble"
             /\ state = "PROCESSING_DOCUMENT_INCLUDES"
             /\ main_lines # <<>> ) =>
              /\ main_lines' = Tail(main_lines)
              /\ IF IsDirective(Head(main_lines))
                 THEN /\ combined_book_markdown_lines' = combined_book_markdown_lines
                      /\ pc' \in {"transpile", "exit"}
                 ELSE /\ pc' = "assemble"
                      /\ combined_book_markdown_lines' =
                             combined_book_markdown_lines
                             \o (IF StartsWith(Head(main_lines), <<"#"," ">>)  \* "# "
                                 THEN << <<"\\","n","e","w","p","a","g","e","{","}">> >> ELSE <<>>)  \* "\\newpage{}"
                             \o << Head(main_lines) >>
        /\ (pc = "transpile" /\ pc' = "assemble") =>
              /\ main_lines' = main_lines
              /\ combined_book_markdown_lines' =
                     combined_book_markdown_lines \o << <<"\\","n","e","w","p","a","g","e","{","}">> >> \o out \o << <<>> >> ]_vars  \* "\\newpage{}"

\* C16 witness: after the first heading a paragraph, a second heading and a
\* chapter were assembled
C16_Witness ==
    /\ combined_file # None
    /\ MainLines = << <<"#"," ","P","a","r","t">>, <<"i","n","t","r","o">>, <<"#"," ","P","a","r","t">>, <<"-"," ",Backtick,"<","d","o","c",":","F","o","o",">",Backtick>> >>  \* "# Part" "intro" "# Part" "- `<doc:Foo>`"
    /\ LET hl == HeaderLength(combined_book_markdown_lines)
       IN /\ SubSeq(combined_book_markdown_lines, hl + 1, hl + 5)
             = << <<"#"," ","P","a","r","t">>, <<"i","n","t","r","o">>, <<"\\","n","e","w","p","a","g","e","{","}">>, <<"#"," ","P","a","r","t">>, <<"\\","n","e","w","p","a","g","e","{","}">> >>  \* "# Part" "intro" "\\newpage{}" "# Part" "\\newpage{}"
          /\ combined_book_markdown_lines[Len(combined_book_markdown_lines)] = <<>>

\* every marker of l references a document that is indexed with a title
AllMarkersTitled(l, mapping) ==
    \A i \in MarkerStarts(l), n \in 1..Len(l) :
        IsMarkerAt(l, i, n) =>
            /\ DocIdOf(TargetAt(l, i, n)) \in DOMAIN mapping
            /\ mapping[DocIdOf(TargetAt(l, i, n))].title # None

\* C17 (as claimed): the rewrite of the cross-references of a line all of whose
\* markers <doc:TARGET> reference a document indexed with a title succeeds and
\* leaves no marker in the line, also when a TARGET has more than one "#"
C17_MarkersAllReplaced ==
    [][ ( /\ pc = "internal_references"
          /\ AllMarkersTitled(line[1], paths_and_titles_mapping) )
        => /\ pc' = "optionality_marker"
           /\ MarkerStarts(line'[1]) = {} ]_vars

\* the same for lines whose targets have at most one "#"
C17_SingleFragment ==
    [][ ( /\ pc = "internal_references"
          /\ AllMarkersTitled(line[1], paths_and_titles_mapping)
          /\ \A i \in MarkerStarts(line[1]), n \in 1..Len(line[1]) :
                IsMarkerAt(line[1], i, n) => Count(TargetAt(line[1], i, n), "#") <= 1 )
        => /\ pc' = "optionality_marker"
           /\ MarkerStarts(line'[1]) = {} ]_vars

-----------------------------------------------------------------------------
(* Properties of image references without usable asset *)

\* l is an image reference ![caption](name) whose asset name@2x.png is missing
\* from as or has no pixel width there
HasNoAsset(l, as) ==
    /\ StartsWith(l, <<"!","[">>)  \* "!["
    /\ \E c \in DOMAIN l :
          /\ IsImageLine(l, c)
          /\ \/ NameOf(l, c) \notin DOMAIN as
             \/ as[NameOf(l, c)] = None
\* l is a rewritten image reference ![caption](name@2x.png){ width=...% } for
\* such an asset
IsScaledWithoutAsset(l, as) ==
    /\ StartsWith(l, <<"!","[">>)  \* "!["
    /\ \E c \in DOMAIN l :
          /\ At(l, c, <<"]","(">>)  \* "]("
          /\ \E e \in (c + 3)..Len(l) :
                /\ At(l, e, <<"@","2","x",".","p","n","g",")","{"," ","w","i","d","t","h","=">>)  \* "@2x.png){ width="
                /\ \/ SubSeq(l, c + 2, e - 1) \notin DOMAIN as
                   \/ as[SubSeq(l, c + 2, e - 1)] = None
\* no line of ls is an image reference without usable asset, rewritten or not
NoneWithoutAsset(ls, as) ==
    \A k \in DOMAIN ls : ~HasNoAsset(ls[k], as) /\ ~IsScaledWithoutAsset(ls[k], as)
NeverEmittedWithoutAsset ==
    /\ NoneWithoutAsset(out, assets)
    /\ NoneWithoutAsset(combined_book_markdown_lines, assets)
    /\ combined_file # None => NoneWithoutAsset(SplitLines(combined_file[1]), assets)

\* C19: when the chapter transpiler reads an image reference whose asset file is
\* missing or has no determinable pixel width, the run ends there with an
\* AssertionError and a nonzero exit status: the chapter adds nothing to the
\* combined document, which is not written either; no transpiled or combined
\* line is ever such a reference, neither unrewritten nor with a width
C19_MissingAssetAborts ==
    /\ []NeverEmittedWithoutAsset
    /\ [][ ( /\ pc = "transpile"
             /\ ~Truthy(pushback)
             /\ markdown_lines # <<>>
             /\ HasNoAsset(Head(markdown_lines), assets) )
           => /\ pc' = "exit"
              /\ error' = "AssertionError"
              /\ exit_status' \notin {None, Some(0)}
              /\ out' = out
              /\ combined_book_markdown_lines' = combined_book_markdown_lines
              /\ combined_file' = None
              /\ stdout' = stdout ]_vars

\* C19 witness: the chapter Foo is a paragraph and a reference to the image
\* "bad", whose width is unknown; the run ended with the AssertionError after
\* the paragraph was transpiled, and the combined document has no chapter
C19_Witness ==
    /\ pc = "exit"
    /\ error = "AssertionError"
    /\ exit_status = Some(1)
    /\ files[2].text = TextOf(<<<<"p","l","a","i","n">>, <<"!","[","C","a","p","]","(","b","a","d",")">>>>)  \* "plain" "![Cap](bad)"
    /\ out = << <<"p","l","a","i","n">> >>  \* "plain"
    /\ combined_file = None
    /\ \A k \in DOMAIN combined_book_markdown_lines :
          combined_book_markdown_lines[k] # <<"p","l","a","i","n">>  \* "plain"

-----------------------------------------------------------------------------
(* Properties of the states definition-first-line and definition-body *)

\* the position in the output of what the input line i of ls contributes: every
\* term line before it that a non-empty line follows has added one empty line
OutIndex(ls, i) == i + Cardinality({j \in FollowedTerms(ls) : j < i})
\* r is l without its leading whitespace
IsLeftTrimOf(r, l) ==
    \E k \in 0..Len(l) :
        /\ \A j \in 1..k : IsSpace(l[j])
        /\ k < Len(l) => ~IsSpace(l[k + 1])
        /\ r = SubSeq(l, k + 1, Len(l))
\* when the transpiler has ended: of two directly consecutive term lines, the
\* first recognised as a term, the output has the label of the first, an empty
\* line and the second as a definition first line
SecondTermIsFirstLine ==
    TranspilerDone =>
        LET ls == In
        IN \A i \in 1..(Len(ls) - 1) :
              ( /\ IsTermLine(ls[i])
                /\ IsTermLine(ls[i + 1])
                /\ ModeAt(ls, i) \in {"normal", "body"} )
              => LET p == OutIndex(ls, i)
                 IN /\ out[p] = LabelOf(ls[i])
                    /\ out[p + 1] = <<>>
                    /\ out[p + 2] = <<":"," "," "," "," ">> \o ls[i + 1]  \* ":    "

\* C21: the line the transpiler handles in state definition-first-line, whatever
\* it is, is emitted as ":    " followed by the line without its leading
\* whitespace, and the state becomes definition-body; of two directly
\* consecutive term lines only the first becomes a label
C21_FirstLineAlwaysDefinition ==
    /\ []SecondTermIsFirstLine
    /\ [][ (pc = "transpile" /\ tstate = "READING_DEFINITION_LIST_DEFINITION_FIRST_LINE")
           => /\ tstate' = "READING_DEFINITION_LIST_DEFINITION"
              /\ Len(out') = Len(out) + 1
              /\ SubSeq(out', 1, Len(out)) = out
              /\ StartsWith(out'[Len(out')], <<":"," "," "," "," ">>)  \* ":    "
              /\ IsLeftTrimOf(From(out'[Len(out')], 6), line'[1]) ]_vars

\* C21 witness: two term lines and a heading were transpiled; the second term
\* line is the definition first line and the heading ends the block
C21_Witness ==
    /\ TranspilerDone
    /\ RawLines = << <<"-"," ","t","e","r","m"," ","F","o","o",":">>, <<"-"," ","t","e","r","m"," ","F","o","o",":">>, <<"#"," ","H","e","a","d","i","n","g">> >>  \* "- term Foo:" "- term Foo:" "# Heading"
    /\ out = << <<"F","o","o">>, <<>>, <<":"," "," "," "," ","-"," ","t","e","r","m"," ","F","o","o",":">>, <<"#","#"," ","H","e","a","d","i","n","g">> >>  \* "Foo" ":    - term Foo:" "## Heading"

\* when the transpiler has ended: every term line recognised as a term that a
\* non-empty line follows has given its label, an empty line and a line with
\* the prefix ":    ", also when it was the line that ended the block before it
ItemsGiveLabelEmptyFirstLine ==
    TranspilerDone =>
        LET ls == In
        IN \A i \in 1..(Len(ls) - 1) :
              ( /\ IsTermLine(ls[i])
                /\ ls[i + 1] # <<>>
                /\ ModeAt(ls, i) \in {"normal", "body"} )
              => LET p == OutIndex(ls, i)
                 IN /\ out[p] = LabelOf(ls[i])
                    /\ out[p + 1] = <<>>
                    /\ StartsWith(out[p + 2], <<":"," "," "," "," ">>)  \* ":    "
                    /\ p > 1 => out[p - 1] # ls[i]

\* C22: a non-empty line without leading whitespace handled in state
\* definition-body is pushed back, nothing is emitted and the state becomes
\* normal; the very next step handles that line in state normal without reading
\* input: a term line gives its label alone and the state list-header-pending,
\* any other line is emitted and the state stays normal; the state becomes
\* normal in no other way; consecutive definition items give a label, an empty
\* line and a ":    " line each
C22_BlockEndIsHandledInNormal ==
    /\ []ItemsGiveLabelEmptyFirstLine
    /\ [][ pc = "transpile" =>
             /\ (tstate = "READING_DEFINITION_LIST_DEFINITION" /\ EndsBody(line'[1]))
                   => /\ out' = out
                      /\ pushback' = line'
                      /\ tstate' = "START"
             /\ (tstate = "START" /\ Truthy(pushback))
                   => /\ line' = pushback
                      /\ markdown_lines' = markdown_lines
                      /\ EndsBody(pushback[1])
                      /\ ~Truthy(pushback')
                      /\ IF IsTermLine(pushback[1])
                         THEN /\ out' = Append(out, LabelOf(pushback[1]))
                              /\ tstate' = "START_DEFINITION_LIST"
                         ELSE /\ out' = Append(out, pushback[1])
                              /\ tstate' = "START"
             /\ (tstate # "START" /\ tstate' = "START")
                   => /\ tstate = "READING_DEFINITION_LIST_DEFINITION"
                      /\ EndsBody(line'[1]) ]_vars

\* C22 witness: two definition items, the second begun by the term line that
\* ended the body of the first, and a paragraph that ended the second
C22_Witness ==
    /\ TranspilerDone
    /\ tstate = "START"
    /\ RawLines = << <<"-"," ","t","e","r","m"," ","F","o","o",":">>, <<"B","o","d","y"," ","l","i","n","e"," ","o","n","e">>, <<"-"," ","t","e","r","m"," ","F","o","o",":">>, <<" "," ","i","n","d","e","n","t","e","d"," ","l","i","n","e">>,  \* "- term Foo:" "Body line one" "- term Foo:" "  indented line"
                     <<"N","e","x","t"," ","p","a","r","a","g","r","a","p","h">> >>  \* "Next paragraph"
    /\ out = << <<"F","o","o">>, <<>>, <<":"," "," "," "," ","B","o","d","y"," ","l","i","n","e"," ","o","n","e">>, <<"F","o","o">>, <<>>, <<":"," "," "," "," ","i","n","d","e","n","t","e","d"," ","l","i","n","e">>,  \* "Foo" ":    Body line one" "Foo" ":    indented line"
                <<"N","e","x","t"," ","p","a","r","a","g","r","a","p","h">> >>  \* "Next paragraph"

====
